---- MODULE Spec2Model ----
(***************************************************************************)
(* Model of mcp-controller's Message Filtering Proxy                       *)
(* (src/src/proxy-server.ts): the child-to-client pump (readLoop), the     *)
(* Message Filter (processMessage, filterToolsListResponse) and the        *)
(* client-to-child pump, over a small universe of JSON-RPC lines.          *)
(*                                                                         *)
(* Text is a sequence of tokens: a newline, a whitespace character, or     *)
(* one JSON text / one non-JSON text.  A JSON text carries its byte        *)
(* layout ("compact" is what JSON.stringify emits, "spaced" is any other   *)
(* layout) and its value; an object value keeps its keys in order, so      *)
(* parsing, schema validation and re-serialisation are not the identity.   *)
(*                                                                         *)
(* The lifecycle is modelled too: the Child Process Manager                *)
(* (TargetServerManager: startTargetServer, stopTargetServer) and the      *)
(* Proxy Session's start and stop, one action per event-loop turn.  Spec   *)
(* is the traffic of a running session, ManagerSpec the manager under any  *)
(* sequence of start and stop calls, SessionSpec one session from start    *)
(* through overlapping stops.                                              *)
(*                                                                         *)
(* The command line and the One-Shot Lister of src/src/cli.ts are modelled *)
(* as well: CliSpec runs main from process.argv to the start of the        *)
(* target, ListerSpec runs listTools(config) against a target that answers *)
(* the requests it is sent.  The inputs of the runs (tools, patterns,      *)
(* messages, command lines) are the small sets of the section "universe    *)
(* of the runs".  ListerLive is the lister under the fairness of its      *)
(* reads, MatcherSpec asks the Pattern Matcher through the Message Filter  *)
(* for every short name and pattern, and BurstSpec feeds the pump a burst  *)
(* of lines in every cutting.                                              *)
(***************************************************************************)
EXTENDS Integers, Sequences, FiniteSets, TLC

\* ------------------------------------------------------------------ bounds
MaxTools == 2   \* longest tool array the child puts in a result
MaxLines == 1   \* lines the child writes in one run
MaxReqs == 1    \* requests the client sends in one run
MaxStarts == 2  \* start calls made in one run
MaxStops == 2   \* stop calls made in one run
MaxChunks == 2  \* chunks a client that does not wait writes in one run
MaxOptions == 2 \* options on a command line
MaxReplies == 2 \* lines the child writes to the One-Shot Lister
MaxName == 3    \* characters of a tool name and of a pattern of the matcher's runs
MaxBurst == 2   \* lines the child has written before the pump reads

\* ------------------------------------------------------------- JSON values
Str(cs) == [t |-> "str", s |-> cs]
Num(n) == [t |-> "num", n |-> n]
Obj(kv) == [t |-> "obj", kv |-> kv]
Arr(el) == [t |-> "arr", el |-> el]

IsObj(v) == v.t = "obj"
IsArr(v) == v.t = "arr"
IsStr(v) == v.t = "str"
IsNum(v) == v.t = "num"

\* `key in obj`
Has(o, k) == \E i \in 1..Len(o.kv) : o.kv[i][1] = k
\* obj[key]: undefined when the key is absent
Undefined == [t |-> "undefined"]
Get(o, k) ==
  IF Has(o, k) THEN o.kv[CHOOSE i \in 1..Len(o.kv) : o.kv[i][1] = k][2]
  ELSE Undefined
Keys(o) == {o.kv[i][1] : i \in 1..Len(o.kv)}

\* {...obj, key: value}: an existing key keeps its position, a new key is
\* appended.
SpreadWith(o, k, v) ==
  IF Has(o, k)
  THEN Obj([i \in 1..Len(o.kv) |-> IF o.kv[i][1] = k THEN <<k, v>> ELSE o.kv[i]])
  ELSE Obj(Append(o.kv, <<k, v>>))

\* ------------------------------------------------------------------ tokens
NL == [c |-> "nl"]
SP == [c |-> "sp"]
CR == [c |-> "cr"]
Junk(id) == [c |-> "junk", id |-> id]
JsonText(layout, v) == [c |-> "json", layout |-> layout, val |-> v]

IsWs(tok) == tok.c \in {"sp", "cr"}

\* The child's output and the host's output are bytes, the buffer and the
\* lines are text.  Every token above is ASCII, the same as a byte and as a
\* character; U+00E9 is the one character here that takes two bytes.
C3 == [c |-> "C3"]
A9 == [c |-> "A9"]
E_ACUTE == [c |-> "U+00E9"]
REPLACEMENT == [c |-> "U+FFFD"]
EF == [c |-> "EF"]
BF == [c |-> "BF"]
BD == [c |-> "BD"]

\* new TextDecoder().decode(value): UTF-8 to text, one chunk on its own; a
\* byte sequence the chunk does not complete becomes U+FFFD
RECURSIVE decode(_)
decode(bytes) ==
  IF bytes = <<>> THEN <<>>
  ELSE IF Head(bytes) = C3 /\ Len(bytes) >= 2 /\ bytes[2] = A9
    THEN <<E_ACUTE>> \o decode(SubSeq(bytes, 3, Len(bytes)))
  ELSE IF Len(bytes) >= 3 /\ SubSeq(bytes, 1, 3) = <<EF, BF, BD>>
    THEN <<REPLACEMENT>> \o decode(SubSeq(bytes, 4, Len(bytes)))
  ELSE IF Head(bytes) \in {C3, A9, EF, BF, BD}
    THEN <<REPLACEMENT>> \o decode(Tail(bytes))
  ELSE <<Head(bytes)>> \o decode(Tail(bytes))

\* process.stdout.write(string): text to UTF-8
RECURSIVE encode(_)
encode(text) ==
  IF text = <<>> THEN <<>>
  ELSE (IF Head(text) = E_ACUTE THEN <<C3, A9>>
        ELSE IF Head(text) = REPLACEMENT THEN <<EF, BF, BD>>
        ELSE <<Head(text)>>) \o encode(Tail(text))

\* JSON.stringify: the compact layout, keys in the object's own order.
JSONstringify(v) == <<JsonText("compact", v)>>

\* JSON.parse: the text must be exactly one JSON text; anything else
\* throws SyntaxError.
JSONparse(text) ==
  IF Len(text) = 1 /\ text[1].c = "json"
  THEN [threw |-> FALSE, val |-> text[1].val]
  ELSE [threw |-> TRUE]

\* ------------------------------------------------- SDK schemas (zod v3)
\* The schemas of @modelcontextprotocol/sdk/types.js that processMessage
\* calls.  z.object parsing builds a new object: the keys of the schema's
\* shape first, in shape order, then (passthrough) the unknown keys in input
\* order; a strict object rejects unknown keys; a plain object drops them.
InShape(shape, k) == \E i \in 1..Len(shape) : shape[i] = k

ZodPassthrough(shape, o) ==
  LET present(k) == Has(o, k)
      extra(pair) == ~InShape(shape, pair[1])
      known == SelectSeq(shape, present)
  IN Obj([i \in 1..Len(known) |-> <<known[i], Get(o, known[i])>>]
         \o SelectSeq(o.kv, extra))

ZodStrip(shape, o) ==
  LET present(k) == Has(o, k)
      known == SelectSeq(shape, present)
  IN Obj([i \in 1..Len(known) |-> <<known[i], Get(o, known[i])>>])

ZodStrictOk(shape, o) == \A k \in Keys(o) : InShape(shape, k)

\* z.optional(...) accepts undefined
IsUndefined(v) == v = Undefined

\* the object with the parsed value of key k in place, when k is present
MapKey(o, k, data) == IF Has(o, k) THEN SpreadWith(o, k, data) ELSE o

JSONRPC_VERSION == Str(<<"2", ".", "0">>)
IsVersion(v) == v = JSONRPC_VERSION
RequestIdOk(v) == IsStr(v) \/ IsNum(v)

\* z.object({}).passthrough()
LooseObjectOk(v) == IsObj(v)
StringArrayOk(v) == IsArr(v) /\ \A i \in 1..Len(v.el) : IsStr(v.el[i])

\* ResultSchema = z.object({_meta: optional(object)}).passthrough()
ResultSchemaOk(v) == IsObj(v) /\ (IsUndefined(Get(v, "_meta")) \/ LooseObjectOk(Get(v, "_meta")))
ResultSchemaData(v) == ZodPassthrough(<<"_meta">>, v)

\* params of a request or notification
ParamsOk(v) == IsObj(v) /\ (IsUndefined(Get(v, "_meta")) \/ LooseObjectOk(Get(v, "_meta")))

\* error: z.object({code: int, message: string, data: optional(unknown)})
ErrorObjectOk(v) ==
  /\ IsObj(v)
  /\ IsNum(Get(v, "code"))
  /\ IsStr(Get(v, "message"))
ErrorObjectData(v) == ZodStrip(<<"code", "message", "data">>, v)

RequestShape == <<"jsonrpc", "id", "method", "params">>
NotificationShape == <<"jsonrpc", "method", "params">>
ResponseShape == <<"jsonrpc", "id", "result">>
ErrorShape == <<"jsonrpc", "id", "error">>

JSONRPCRequestOk(v) ==
  /\ IsObj(v) /\ ZodStrictOk(RequestShape, v)
  /\ IsVersion(Get(v, "jsonrpc"))
  /\ RequestIdOk(Get(v, "id"))
  /\ IsStr(Get(v, "method"))
  /\ (IsUndefined(Get(v, "params")) \/ ParamsOk(Get(v, "params")))

JSONRPCNotificationOk(v) ==
  /\ IsObj(v) /\ ZodStrictOk(NotificationShape, v)
  /\ IsVersion(Get(v, "jsonrpc"))
  /\ IsStr(Get(v, "method"))
  /\ (IsUndefined(Get(v, "params")) \/ ParamsOk(Get(v, "params")))

JSONRPCResponseOk(v) ==
  /\ IsObj(v) /\ ZodStrictOk(ResponseShape, v)
  /\ IsVersion(Get(v, "jsonrpc"))
  /\ RequestIdOk(Get(v, "id"))
  /\ ResultSchemaOk(Get(v, "result"))

JSONRPCErrorOk(v) ==
  /\ IsObj(v) /\ ZodStrictOk(ErrorShape, v)
  /\ IsVersion(Get(v, "jsonrpc"))
  /\ RequestIdOk(Get(v, "id"))
  /\ ErrorObjectOk(Get(v, "error"))

\* JSONRPCMessageSchema.safeParse: the union of the four strict schemas,
\* the first that accepts the value wins.
JSONRPCMessageSchema_safeParse(v) ==
  IF JSONRPCRequestOk(v)
    THEN [success |-> TRUE,
          data |-> ZodPassthrough(RequestShape,
                     MapKey(v, "params", ResultSchemaData(Get(v, "params"))))]
  ELSE IF JSONRPCNotificationOk(v)
    THEN [success |-> TRUE,
          data |-> ZodPassthrough(NotificationShape,
                     MapKey(v, "params", ResultSchemaData(Get(v, "params"))))]
  ELSE IF JSONRPCResponseOk(v)
    THEN [success |-> TRUE,
          data |-> ZodPassthrough(ResponseShape,
                     MapKey(v, "result", ResultSchemaData(Get(v, "result"))))]
  ELSE IF JSONRPCErrorOk(v)
    THEN [success |-> TRUE,
          data |-> ZodPassthrough(ErrorShape,
                     MapKey(v, "error", ErrorObjectData(Get(v, "error"))))]
  ELSE [success |-> FALSE]

\* inputSchema / outputSchema of a tool:
\* z.object({type: literal("object"), properties?, required?}).passthrough()
SchemaShape == <<"type", "properties", "required">>
OBJECT == Str(<<"o", "b", "j", "e", "c", "t">>)
IsObjectLiteral(v) == v = OBJECT
ToolInputSchemaOk(v) ==
  /\ IsObj(v)
  /\ IsObjectLiteral(Get(v, "type"))
  /\ (IsUndefined(Get(v, "properties")) \/ LooseObjectOk(Get(v, "properties")))
  /\ (IsUndefined(Get(v, "required")) \/ StringArrayOk(Get(v, "required")))
ToolInputSchemaData(v) == ZodPassthrough(SchemaShape, v)

\* ToolSchema = BaseMetadataSchema.extend({...}) (passthrough)
ToolShape ==
  <<"name", "title", "description", "inputSchema", "outputSchema",
    "annotations", "_meta">>
ToolSchemaOk(v) ==
  /\ IsObj(v)
  /\ IsStr(Get(v, "name"))
  /\ (IsUndefined(Get(v, "title")) \/ IsStr(Get(v, "title")))
  /\ (IsUndefined(Get(v, "description")) \/ IsStr(Get(v, "description")))
  /\ ToolInputSchemaOk(Get(v, "inputSchema"))
  /\ (IsUndefined(Get(v, "outputSchema")) \/ ToolInputSchemaOk(Get(v, "outputSchema")))
  /\ (IsUndefined(Get(v, "annotations")) \/ LooseObjectOk(Get(v, "annotations")))
  /\ (IsUndefined(Get(v, "_meta")) \/ LooseObjectOk(Get(v, "_meta")))
ToolSchemaData(v) ==
  ZodPassthrough(ToolShape,
    MapKey(MapKey(v, "inputSchema", ToolInputSchemaData(Get(v, "inputSchema"))),
           "outputSchema", ToolInputSchemaData(Get(v, "outputSchema"))))

ToolsArrayOk(v) == IsArr(v) /\ \A i \in 1..Len(v.el) : ToolSchemaOk(v.el[i])
ToolsArrayData(v) == Arr([i \in 1..Len(v.el) |-> ToolSchemaData(v.el[i])])

\* ListToolsResultSchema = PaginatedResultSchema.extend({tools: array(Tool)})
ListToolsResultShape == <<"_meta", "nextCursor", "tools">>
ListToolsResultOk(v) ==
  /\ IsObj(v)
  /\ (IsUndefined(Get(v, "_meta")) \/ LooseObjectOk(Get(v, "_meta")))
  /\ (IsUndefined(Get(v, "nextCursor")) \/ IsStr(Get(v, "nextCursor")))
  /\ ToolsArrayOk(Get(v, "tools"))

ListToolsResultSchema_safeParse(v) ==
  IF ListToolsResultOk(v)
  THEN [success |-> TRUE,
        data |-> ZodPassthrough(ListToolsResultShape,
                   MapKey(v, "tools", ToolsArrayData(Get(v, "tools"))))]
  ELSE [success |-> FALSE]

\* --------------------------------------------------------- Pattern Matcher
\* matchesToolPattern of src/utils.ts: exact equality for a pattern without
\* `*`; otherwise a whole-name match where `*` stands for any (possibly
\* empty) run of characters and every other character is literal.
HasWildcard(pattern) == \E i \in 1..Len(pattern) : pattern[i] = "*"

\* GlobMatch that is not anchored at the end of the name: a name that
\* begins with a match counts
RECURSIVE GlobMatch_partial(_, _)
GlobMatch_partial(name, pattern) ==
  IF pattern = <<>> THEN TRUE
  ELSE IF Head(pattern) = "*"
    THEN \/ GlobMatch_partial(name, Tail(pattern))
         \/ (name # <<>> /\ GlobMatch_partial(Tail(name), pattern))
  ELSE /\ name # <<>>
       /\ Head(name) = Head(pattern)
       /\ GlobMatch_partial(Tail(name), Tail(pattern))

RECURSIVE GlobMatch(_, _)
GlobMatch(name, pattern) ==
  IF pattern = <<>> THEN name = <<>>
  ELSE IF Head(pattern) = "*"
    THEN \/ GlobMatch(name, Tail(pattern))
         \/ (name # <<>> /\ GlobMatch(Tail(name), pattern))
  ELSE /\ name # <<>>
       /\ Head(name) = Head(pattern)
       /\ GlobMatch(Tail(name), Tail(pattern))

\* a text with its capital letters made small
toLowerCase(text) ==
  [i \in 1..Len(text) |-> IF text[i] = "A" THEN "a" ELSE text[i]]

\* matchesToolPattern that compares a pattern without `*` ignoring case
matchesToolPattern_ignoreCase(name, pattern) ==
  IF HasWildcard(pattern) THEN GlobMatch(name, pattern)
  ELSE toLowerCase(name) = toLowerCase(pattern)

matchesToolPattern(name, pattern) ==
  IF HasWildcard(pattern) THEN GlobMatch(name, pattern) ELSE name = pattern

\* ---------------------------------------------------------- Message Filter
\* ProxyConfig: an optional array is a flag plus the array.
Config(hasEnabled, enabledTools, hasDisabled, disabledTools) ==
  [hasEnabled |-> hasEnabled, enabledTools |-> enabledTools,
   hasDisabled |-> hasDisabled, disabledTools |-> disabledTools]

\* patterns.some(pattern => matchesToolPattern(name, pattern))
SomePattern(patterns, name) ==
  \E i \in 1..Len(patterns) : matchesToolPattern(name, patterns[i])

ToolName(tool) == Get(tool, "name").s

\* the enabledTools branch with `every` in place of `some`
filterEnabled_every(enabledTools, tools) ==
  LET keep(tool) ==
        \A i \in 1..Len(enabledTools) :
          matchesToolPattern(ToolName(tool), enabledTools[i])
  IN SelectSeq(tools, keep)

\* the enabledTools branch
filterEnabled(enabledTools, tools) ==
  LET keep(tool) == SomePattern(enabledTools, ToolName(tool))
  IN SelectSeq(tools, keep)

\* the disabledTools branch without its negation
filterDisabled_noNegation(disabledTools, tools) ==
  LET keep(tool) == SomePattern(disabledTools, ToolName(tool))
  IN SelectSeq(tools, keep)

\* the disabledTools branch with `every` in place of `some`
filterDisabled_every(disabledTools, tools) ==
  LET keep(tool) ==
        ~\A i \in 1..Len(disabledTools) :
           matchesToolPattern(ToolName(tool), disabledTools[i])
  IN SelectSeq(tools, keep)

\* the disabledTools branch
filterDisabled(disabledTools, tools) ==
  LET keep(tool) == ~SomePattern(disabledTools, ToolName(tool))
  IN SelectSeq(tools, keep)

\* {tools: filteredTools}, the rest of the result forgotten
withTools_dropRest(result, filteredTools) ==
  Obj(<< <<"tools", Arr(filteredTools)>> >>)

\* {...result, tools: filteredTools}
withTools(result, filteredTools) == SpreadWith(result, "tools", Arr(filteredTools))

\* without the early return: an absent enabledTools filters as an empty one
filterToolsListResponse_noEarlyReturn(cfg, result) ==
  LET tools == Get(result, "tools").el
      filteredTools ==
        IF cfg.hasDisabled /\ ~cfg.hasEnabled
        THEN LET keepD(tool) == ~SomePattern(cfg.disabledTools, ToolName(tool))
             IN SelectSeq(tools, keepD)
        ELSE LET keepE(tool) == SomePattern(cfg.enabledTools, ToolName(tool))
             IN SelectSeq(tools, keepE)
  IN SpreadWith(result, "tools", Arr(filteredTools))

filterToolsListResponse(cfg, result) ==
  IF ~cfg.hasEnabled /\ ~cfg.hasDisabled THEN result
  ELSE LET tools == Get(result, "tools").el
           filteredTools ==
             IF cfg.hasEnabled THEN filterEnabled(cfg.enabledTools, tools)
             ELSE IF cfg.hasDisabled THEN filterDisabled(cfg.disabledTools, tools)
             ELSE tools
       IN withTools(result, filteredTools)

\* What processMessage hands back: the returned text, or an exception.
Returned(text) == [raised |-> FALSE, out |-> text]
Raised == [raised |-> TRUE, out |-> <<>>]

\* a catch block that rethrows
onParseError_rethrow(line) == Raised

\* the catch block: the line unchanged
onParseError(line) == Returned(line)

\* the message re-serialised in place of `return line`
passThrough_reserialize(line) == Returned(JSONstringify(JSONparse(line).val))

\* `return line` for a message that is not filtered
passThrough(line) == Returned(line)

\* 'result' in message && !('method' in message) && !('error' in message)
isResponse(message) ==
  Has(message, "result") /\ ~Has(message, "method") /\ ~Has(message, "error")

\* JSON.stringify({...message, result: filteredResult})
rewritten(message, filteredResult) ==
  Returned(JSONstringify(SpreadWith(message, "result", filteredResult)))

processMessage(cfg, line) ==
  LET json == JSONparse(line)
  IN IF json.threw THEN onParseError(line)
     ELSE LET parsed == JSONRPCMessageSchema_safeParse(json.val)
          IN IF ~parsed.success THEN passThrough(line)
             ELSE LET message == parsed.data
                  IN IF isResponse(message)
                     THEN LET toolsResult ==
                                ListToolsResultSchema_safeParse(Get(message, "result"))
                          IN IF toolsResult.success
                             THEN rewritten(message,
                                    filterToolsListResponse(cfg, toolsResult.data))
                             ELSE passThrough(line)
                     ELSE passThrough(line)

\* ------------------------------------------------------------ Frame Reader
\* String.prototype.split('\n'): the pieces between newlines, the last one
\* being the text after the last newline (possibly empty).
RECURSIVE split(_)
split(text) ==
  IF \A i \in 1..Len(text) : text[i] # NL THEN <<text>>
  ELSE LET n == CHOOSE i \in 1..Len(text) :
                  text[i] = NL /\ \A j \in 1..(i - 1) : text[j] # NL
       IN <<SubSeq(text, 1, n - 1)>> \o split(SubSeq(text, n + 1, Len(text)))

\* String.prototype.trim(): without its leading and trailing whitespace
RECURSIVE trim(_)
trim(line) ==
  IF line = <<>> THEN line
  ELSE IF IsWs(Head(line)) THEN trim(Tail(line))
  ELSE IF IsWs(line[Len(line)]) THEN trim(SubSeq(line, 1, Len(line) - 1))
  ELSE line

\* what the pump writes for one line that processMessage returned
forwardLine(processedLine) == processedLine \o <<NL>>

\* forwardBlank of a pump that skips blank lines
forwardBlank_skip(line) == <<>>

\* what the pump writes for a blank line
forwardBlank(line) == <<NL>>

\* The `for (const line of lines)` loop: the text written to the host's
\* output, the processMessage calls made, and whether a call raised (which
\* ends the loop in readLoop's catch).
RECURSIVE forLines(_, _)
forLines(cfg, lines) ==
  IF lines = <<>> THEN [out |-> <<>>, calls |-> <<>>, raised |-> FALSE]
  ELSE LET line == Head(lines)
       IN IF trim(line) # <<>>
          THEN LET r == processMessage(cfg, trim(line))
                   call == [line |-> trim(line), raised |-> r.raised, out |-> r.out]
               IN IF r.raised
                  THEN [out |-> <<>>, calls |-> <<call>>, raised |-> TRUE]
                  ELSE LET rest == forLines(cfg, Tail(lines))
                       IN [out |-> forwardLine(r.out) \o rest.out,
                           calls |-> <<call>> \o rest.calls,
                           raised |-> rest.raised]
          ELSE LET rest == forLines(cfg, Tail(lines))
               IN [out |-> forwardBlank(line) \o rest.out,
                   calls |-> rest.calls,
                   raised |-> rest.raised]

\* --------------------------------------------------- Child Process Manager
\* TargetServerManager of src/target-server.ts.  A handle is the number of
\* the child it refers to (children are numbered as they are spawned), or
\* NULL.
NULL == 0

\* the child Bun.spawn returns: running, its stdin open, no signal sent
Spawned == [alive |-> TRUE, stdinEnded |-> FALSE, killed |-> FALSE]

\* what Bun.spawn does: it returns a child, or throws (no such executable)
SpawnOutcomes == {"spawned", "ENOENT"}

\* the guard of startTargetServer, never true
alreadyRunning_never(handle) == FALSE

\* if (this.targetServer)
alreadyRunning(handle) == handle # NULL

\* startTargetServer: the error it throws ("none": it returns the handle),
\* this.targetServer and the children afterwards
startTargetServer(handle, kids, outcome) ==
  IF alreadyRunning(handle)
  THEN [error |-> "Target server is already running",
        handle |-> handle, children |-> kids]
  ELSE IF outcome # "spawned"
  THEN [error |-> outcome, handle |-> handle, children |-> kids]
  ELSE [error |-> "none",
        handle |-> Len(kids) + 1, children |-> Append(kids, Spawned)]

\* The cleanup step that throws in a stop call, if the call reaches it:
\* stdin.end(), process.kill(), or the await of process.exited.
CleanupFailures == {"none", "end", "kill", "exited"}

\* The try block of stopTargetServer up to its await: the steps attempted,
\* the child afterwards, and whether the call is now waiting for the exit.
\* A step that throws has no effect and skips the steps after it.
tryCleanup(child, fail) ==
  IF fail = "end"
  THEN [steps |-> <<"end">>, child |-> child, awaiting |-> FALSE]
  ELSE IF fail = "kill"
  THEN [steps |-> <<"end", "kill">>,
        child |-> [child EXCEPT !.stdinEnded = TRUE], awaiting |-> FALSE]
  ELSE [steps |-> <<"end", "kill", "wait">>,
        child |-> [child EXCEPT !.stdinEnded = TRUE, !.killed = TRUE],
        awaiting |-> TRUE]

\* a catch block that rethrows
catchCleanup_rethrow(fail) == fail # "none"

\* catch { }: whether the error of a failed step leaves stopTargetServer
catchCleanup(fail) == FALSE

\* a finally block that leaves the handle in place
finallyClear_keep(handle) == handle

\* finally { this.targetServer = null }
finallyClear(handle) == NULL

\* if (!this.targetServer) return
noHandle(handle) == handle = NULL

\* stopTargetServer up to its first suspension: the handle it found, the
\* steps it attempted, whether it is waiting for the exit or has finished,
\* whether it raised, this.targetServer and the children afterwards
stopTargetServer(handle, kids, fail) ==
  IF noHandle(handle)
  THEN [found |-> NULL, steps |-> <<>>, awaiting |-> FALSE, raised |-> FALSE,
        handle |-> handle, children |-> kids]
  ELSE LET t == tryCleanup(kids[handle], fail)
       IN [found |-> handle, steps |-> t.steps, awaiting |-> t.awaiting,
           raised |-> ~t.awaiting /\ catchCleanup(fail),
           handle |-> IF t.awaiting THEN handle ELSE finallyClear(handle),
           children |-> [kids EXCEPT ![handle] = t.child]]

\* getTargetServer() and isRunning(): what the manager reports of its
\* handle; neither looks at the process
getTargetServer(handle) == handle
isRunning(handle) == handle # NULL

\* ------------------------------------------------------------ Proxy Session
\* setupStdioProxy: the listeners on process.stdin and the state of readLoop
\* afterwards ("none": not started)
setupStdioProxy(handle) ==
  IF handle = NULL
  THEN [error |-> "Target server not started", listeners |-> {},
        pump |-> "none"]
  ELSE [error |-> "none", listeners |-> {"data", "end"}, pump |-> "reading"]

\* a start that sets up the proxying whatever startTargetServer answered
start_setupAnyway(session, handle, kids, outcome) ==
  LET r == startTargetServer(handle, kids, outcome)
  IN [error |-> "none", targetServer |-> r.handle,
      handle |-> r.handle, children |-> r.children,
      listeners |-> {"data", "end"}, pump |-> "reading"]

\* McpProxyServer.start: `await startTargetServer` rethrows its error and
\* nothing after it runs; otherwise the handle is kept and setupStdioProxy
\* runs
start(session, handle, kids, outcome) ==
  LET r == startTargetServer(handle, kids, outcome)
      setup == setupStdioProxy(r.handle)
  IN IF r.error # "none"
     THEN [error |-> r.error, targetServer |-> session,
           handle |-> r.handle, children |-> r.children,
           listeners |-> {}, pump |-> "none"]
     ELSE [error |-> setup.error, targetServer |-> r.handle,
           handle |-> r.handle, children |-> r.children,
           listeners |-> setup.listeners, pump |-> setup.pump]

\* this.targetServer = null, the last statement of McpProxyServer.stop,
\* which runs in the turn in which stopTargetServer returns
sessionClear(handle) == NULL

\* a stdin write that keeps one line of the chunk, without its whitespace
write_trimmed(child, sink, data) ==
  IF child.stdinEnded THEN sink
  ELSE sink \o trim(split(data)[1]) \o <<NL>>

\* this.targetServer.stdin.write(data): the bytes join the child's input as
\* they are; a sink that was ended takes no more bytes
write(child, sink, data) == IF child.stdinEnded THEN sink ELSE sink \o data

\* the 'data' listener: if (this.targetServer) { ...stdin.write(data) }
onData(handle, kids, sink, data) ==
  IF handle # NULL
  THEN [sink |-> write(kids[handle], sink, data), raised |-> FALSE]
  ELSE [sink |-> sink, raised |-> FALSE]

\* a loop that goes on reading whatever the handle is
whileTest_always(handle) == "reading"

\* while (this.targetServer): the loop reads again, or is left
whileTest(handle) == IF handle # NULL THEN "reading" ELSE "exited"

\* an end of stream that flushes the buffer as a last line
onDone_flush(cfg, buf) ==
  IF trim(buf) # <<>> THEN forwardLine(processMessage(cfg, trim(buf)).out)
  ELSE <<>>

\* if (done) break: what is written at the end of the stream
onDone(cfg, buf) == <<>>

\* ------------------------------------------------------------ Command line
\* An argument is a string, a sequence of characters; the words the parser
\* compares with are one character each.
ENABLED_TOOLS == <<"--enabled-tools">>
DISABLED_TOOLS == <<"--disabled-tools">>
LIST_TOOLS == <<"list-tools">>

\* value.split(',').map(tool => tool.trim()).filter(tool => tool.length > 0)
toolList(value) ==
  LET RECURSIVE pieces(_)
      pieces(cs) ==
        IF \A i \in 1..Len(cs) : cs[i] # "," THEN <<cs>>
        ELSE LET k == CHOOSE i \in 1..Len(cs) :
                        cs[i] = "," /\ \A j \in 1..(i - 1) : cs[j] # ","
             IN <<SubSeq(cs, 1, k - 1)>> \o pieces(SubSeq(cs, k + 1, Len(cs)))
      RECURSIVE strip(_)
      strip(cs) ==
        IF cs = <<>> THEN cs
        ELSE IF Head(cs) = " " THEN strip(Tail(cs))
        ELSE IF cs[Len(cs)] = " " THEN strip(SubSeq(cs, 1, Len(cs) - 1))
        ELSE cs
      nonEmpty(cs) == Len(cs) > 0
      parts == pieces(value)
  IN SelectSeq([i \in 1..Len(parts) |-> strip(parts[i])], nonEmpty)

\* what a parser hands to main: a ProxyConfig, or the line it wrote to
\* stderr before process.exit(1)
Parsed(cfg, targetCommand, mode) ==
  [error |-> "none", config |-> cfg, targetCommand |-> targetCommand,
   mode |-> mode]
Rejected(message) ==
  [error |-> message, config |-> Config(FALSE, <<>>, FALSE, <<>>),
   targetCommand |-> <<>>, mode |-> "none"]

\* a loop that lets the later of the two flags win
parseFlags_noExclusion(args, mode) ==
  LET RECURSIVE loop(_, _)
      loop(i, acc) ==
        IF i > Len(args) THEN acc
        ELSE IF args[i] \in {ENABLED_TOOLS, DISABLED_TOOLS}
          THEN IF i + 1 > Len(args)
               THEN Rejected(IF args[i] = ENABLED_TOOLS
                             THEN "Error: --enabled-tools requires a value"
                             ELSE "Error: --disabled-tools requires a value")
               ELSE loop(i + 2,
                      Parsed(IF args[i] = ENABLED_TOOLS
                             THEN Config(TRUE, toolList(args[i + 1]), FALSE, <<>>)
                             ELSE Config(FALSE, <<>>, TRUE, toolList(args[i + 1])),
                             acc.targetCommand, mode))
        ELSE loop(i + 1, Parsed(acc.config, Append(acc.targetCommand, args[i]),
                                mode))
  IN loop(1, Parsed(Config(FALSE, <<>>, FALSE, <<>>), <<>>, mode))

\* the for loop of parseArguments; the loop of parseListToolsArguments
\* (cli.ts:161-189) is the same, statement for statement
parseFlags(args, mode) ==
  LET RECURSIVE loop(_, _)
      loop(i, acc) ==
        IF i > Len(args) THEN acc
        ELSE IF args[i] = ENABLED_TOOLS
          THEN IF i + 1 > Len(args)
               THEN Rejected("Error: --enabled-tools requires a value")
               ELSE IF acc.config.hasDisabled
               THEN Rejected("Error: --enabled-tools and --disabled-tools are mutually exclusive")
               ELSE loop(i + 2,
                      Parsed(Config(TRUE, toolList(args[i + 1]), FALSE, <<>>),
                             acc.targetCommand, mode))
        ELSE IF args[i] = DISABLED_TOOLS
          THEN IF i + 1 > Len(args)
               THEN Rejected("Error: --disabled-tools requires a value")
               ELSE IF acc.config.hasEnabled
               THEN Rejected("Error: --enabled-tools and --disabled-tools are mutually exclusive")
               ELSE loop(i + 2,
                      Parsed(Config(FALSE, <<>>, TRUE, toolList(args[i + 1])),
                             acc.targetCommand, mode))
        ELSE loop(i + 1, Parsed(acc.config, Append(acc.targetCommand, args[i]),
                                mode))
  IN loop(1, Parsed(Config(FALSE, <<>>, FALSE, <<>>), <<>>, mode))

\* the test of targetCommand.length after the loop
requireCommand(r, message) ==
  IF r.error = "none" /\ r.targetCommand = <<>> THEN Rejected(message) ELSE r

parseListToolsArguments(args) ==
  IF args = <<>>
  THEN Rejected("Error: No target command specified for list-tools")
  ELSE requireCommand(parseFlags(args, "list-tools"),
                      "Error: No target command specified for list-tools")

parseArguments(args) ==
  IF args = <<>> THEN Rejected("Usage")
  ELSE IF args[1] = LIST_TOOLS THEN parseListToolsArguments(Tail(args))
  ELSE requireCommand(parseFlags(args, "proxy"),
                      "Error: No target command specified")

\* ---------------------------------------------------------- One-Shot Lister
\* listTools of src/cli.ts.  A read of the child's stdout may end inside a
\* JSON text: Cut(1, t) and Cut(2, t) are the two parts of the text t, and a
\* string that holds both, one after the other, holds t.
Cut(k, t) == [c |-> "cut", k |-> k, of |-> t]

\* buffer += new TextDecoder().decode(value)
RECURSIVE concat(_, _)
concat(buffer, text) ==
  IF text = <<>> THEN buffer
  ELSE IF /\ buffer # <<>>
          /\ buffer[Len(buffer)].c = "cut" /\ buffer[Len(buffer)].k = 1
          /\ Head(text) = Cut(2, buffer[Len(buffer)].of)
    THEN concat(SubSeq(buffer, 1, Len(buffer) - 1)
                  \o <<buffer[Len(buffer)].of>>, Tail(text))
  ELSE concat(Append(buffer, Head(text)), Tail(text))

\* an Error that reaches the catch of listTools: what was thrown and the
\* message of the server it carries, if any
Thrown(what, message) == [threw |-> TRUE, what |-> what, message |-> message]
NotThrown == [threw |-> FALSE, what |-> "none", message |-> <<>>]

\* `x.error` as a condition: x is an object that has a truthy `error`
\* (here: any `error` member)
hasError(v) == IsObj(v) /\ Has(v, "error")

\* error.message of a response, for the template string
errorMessage(v) ==
  LET m == Get(Get(v, "error"), "message")
  IN IF IsStr(m) THEN m.s ELSE <<"undefined">>

\* a first read that takes any parsed line for a good response
readInitResponse_ignoreError(value) ==
  IF value = <<>> THEN Thrown("No response from server", <<>>)
  ELSE LET initLines == split(concat(<<>>, decode(value)))
           nonBlank(line) == trim(line) # <<>>
           found == SelectSeq(initLines, nonBlank)
       IN IF found = <<>> THEN Thrown("No valid response received", <<>>)
          ELSE IF JSONparse(trim(found[1])).threw
          THEN Thrown("SyntaxError", <<>>)
          ELSE NotThrown

\* cli.ts:302-313, from the result of the first reader.read() on: `value`
\* is the chunk, <<>> when the read brought none
readInitResponse(value) ==
  IF value = <<>> THEN Thrown("No response from server", <<>>)
  ELSE LET initLines == split(concat(<<>>, decode(value)))
           nonBlank(line) == trim(line) # <<>>
           found == SelectSeq(initLines, nonBlank)
       IN IF found = <<>> THEN Thrown("No valid response received", <<>>)
          ELSE LET parsed == JSONparse(trim(found[1]))
               IN IF parsed.threw THEN Thrown("SyntaxError", <<>>)
                  ELSE IF hasError(parsed.val)
                  THEN Thrown("Initialize failed", errorMessage(parsed.val))
                  ELSE NotThrown

\* cli.ts:347-351: the names are compared with Array.prototype.includes
listerFilter(cfg, tools) ==
  LET includes(names, name) == \E i \in 1..Len(names) : names[i] = name
      enabled(tool) == includes(cfg.enabledTools, ToolName(tool))
      notDisabled(tool) == ~includes(cfg.disabledTools, ToolName(tool))
  IN IF cfg.hasEnabled THEN SelectSeq(tools, enabled)
     ELSE IF cfg.hasDisabled THEN SelectSeq(tools, notDisabled)
     ELSE tools

NO_DESCRIPTION == <<"No description available">>

\* a line without the placeholder: an absent description prints as
\* `undefined`
formatTool_noPlaceholder(tool) ==
  <<[c |-> "tool", name |-> ToolName(tool),
     description |-> IF IsStr(Get(tool, "description"))
                     THEN Get(tool, "description").s ELSE <<"undefined">>], NL>>

\* `${tool.name}: ${tool.description || 'No description available'}\n`
formatTool(tool) ==
  <<[c |-> "tool", name |-> ToolName(tool),
     description |-> IF /\ IsStr(Get(tool, "description"))
                        /\ Get(tool, "description").s # <<>>
                     THEN Get(tool, "description").s ELSE NO_DESCRIPTION], NL>>

\* cli.ts:338-359, the body of the inner try for one line: the text printed
\* and whether the function returns; a throw inside it lands in the inner
\* catch, which goes on with the next line.  (A `tools` that is a string
\* or a number, which JavaScript would iterate or take for absent, is not
\* among the runs and counts as a TypeError here.)
tryLine(cfg, line) ==
  LET response == JSONparse(line)
      skip == [returns |-> FALSE, out |-> <<>>, swallowed |-> "none"]
  IN IF response.threw THEN [skip EXCEPT !.swallowed = "SyntaxError"]
     ELSE IF ~IsObj(response.val) \/ Get(response.val, "id") # Num(2) THEN skip
     ELSE IF hasError(response.val)
       THEN [skip EXCEPT !.swallowed = "Tools list failed"]
     ELSE IF IsUndefined(Get(response.val, "result"))
       THEN [skip EXCEPT !.swallowed = "TypeError"]
     ELSE LET result == Get(response.val, "result")
              listed == IF IsObj(result) THEN Get(result, "tools") ELSE Undefined
          IN
       IF ~IsUndefined(listed) /\ ~IsArr(listed)
       THEN [skip EXCEPT !.swallowed = "TypeError"]
       ELSE
          LET tools == listerFilter(cfg, IF IsArr(listed) THEN listed.el ELSE <<>>)
              RECURSIVE print(_)
              print(ts) == IF ts = <<>> THEN <<>>
                           ELSE formatTool(Head(ts)) \o print(Tail(ts))
          IN [returns |-> TRUE, out |-> print(tools), swallowed |-> "none"]

\* cli.ts:335-365, the for loop over every line of toolsBuffer
RECURSIVE scanLines(_, _)
scanLines(cfg, lines) ==
  IF lines = <<>> THEN [returns |-> FALSE, out |-> <<>>, swallowed |-> {}]
  ELSE IF trim(Head(lines)) = <<>> THEN scanLines(cfg, Tail(lines))
  ELSE LET r == tryLine(cfg, trim(Head(lines)))
       IN IF r.returns THEN [returns |-> TRUE, out |-> r.out, swallowed |-> {}]
          ELSE LET rest == scanLines(cfg, Tail(lines))
               IN [rest EXCEPT !.swallowed = @ \cup ({r.swallowed} \ {"none"})]

\* ---------------------------------------------------- universe of the runs
ADD == <<"a", "d", "d">>
GET_ARGS == <<"g", "e", "t", "-", "a", "r", "g", "s">>
SECRET == <<"s", "e", "c", "r", "e", "t">>

\* tool descriptors a server may list: a full one, one with its keys in
\* another order and with fields the SDK schema does not name, and one
\* that carries a name only
ToolAdd ==
  Obj(<< <<"name", Str(ADD)>>, <<"description", Str(<<"d">>)>>,
         <<"inputSchema", Obj(<< <<"type", OBJECT>> >>)>> >>)
ToolGetArgs ==
  Obj(<< <<"inputSchema", Obj(<< <<"additionalProperties", Num(0)>>,
                                 <<"type", OBJECT>> >>)>>,
         <<"name", Str(GET_ARGS)>>, <<"vendor", Num(1)>> >>)
ToolSecret == Obj(<< <<"name", Str(SECRET)>> >>)

\* the tool arrays of the runs: the windows of at most MaxTools tools of
\* this catalogue
Catalogue == <<ToolAdd, ToolGetArgs, ToolAdd, ToolSecret>>
ToolLists ==
  {SubSeq(Catalogue, i, j) :
     i \in 1..(Len(Catalogue) + 1), j \in 0..Len(Catalogue)}
  \cap UNION {[1..k -> {ToolAdd, ToolGetArgs, ToolSecret}] : k \in 0..MaxTools}

\* --enabled-tools / --disabled-tools values (`,` gives the empty array)
GET_STAR == <<"g", "e", "t", "-", "*">>
PatternSets == {<<>>, <<ADD>>, <<GET_STAR, ADD>>}

Configs ==
  {Config(FALSE, <<>>, FALSE, <<>>)}
  \cup {Config(TRUE, P, FALSE, <<>>) : P \in PatternSets}
  \cup {Config(FALSE, <<>>, TRUE, P) : P \in PatternSets}

TOOLS_LIST == <<"t", "o", "o", "l", "s", "/", "l", "i", "s", "t">>
TOOLS_CALL == <<"t", "o", "o", "l", "s", "/", "c", "a", "l", "l">>
PING == <<"p", "i", "n", "g">>
Methods == {TOOLS_LIST, TOOLS_CALL}

Request(id, method) ==
  Obj(<< <<"jsonrpc", JSONRPC_VERSION>>, <<"id", Num(id)>>,
         <<"method", Str(method)>> >>)
Notification(method) ==
  Obj(<< <<"jsonrpc", JSONRPC_VERSION>>, <<"method", Str(method)>> >>)
Response(id, result) ==
  Obj(<< <<"jsonrpc", JSONRPC_VERSION>>, <<"id", Num(id)>>,
         <<"result", result>> >>)
ErrorResponse(id) ==
  Obj(<< <<"jsonrpc", JSONRPC_VERSION>>, <<"id", Num(id)>>,
         <<"error", Obj(<< <<"code", Num(-1)>>,
                           <<"message", Str(<<"e">>)>> >>)>> >>)

ToolListResult(L) == Obj(<< <<"tools", Arr(L)>> >>)
\* a result with more fields around its tools array (a paginated tool
\* list, or a tool-call result that happens to carry a tools array)
RichResult(L) ==
  Obj(<< <<"vendor", Num(1)>>, <<"tools", Arr(L)>>,
         <<"nextCursor", Str(<<"c">>)>> >>)
TwoTools == <<ToolAdd, ToolGetArgs>>

OtherResults ==
  {Obj(<<>>),
   Obj(<< <<"tools", Str(<<"x">>)>> >>),
   Obj(<< <<"tools", Arr(<<Obj(<< <<"name", Num(1)>> >>)>>)>> >>)}

\* the texts a child may write as the response to request id
ResponseTexts(id) ==
  {JsonText("compact", Response(id, ToolListResult(L))) : L \in ToolLists}
  \cup {JsonText("compact", Response(id, r)) : r \in OtherResults}
  \cup {JsonText("spaced", Response(id, ToolListResult(TwoTools))),
        JsonText("compact", Response(id, RichResult(TwoTools))),
        JsonText("spaced", ErrorResponse(id)),
        \* result first
        JsonText("compact",
          Obj(<< <<"result", ToolListResult(TwoTools)>>,
                 <<"id", Num(id)>>, <<"jsonrpc", JSONRPC_VERSION>> >>)),
        \* a member the JSON-RPC envelope does not have
        JsonText("compact",
          SpreadWith(Response(id, ToolListResult(TwoTools)),
                     "extra", Num(1)))}

\* texts that get whitespace around them
Decorated(id) ==
  {JsonText("spaced", Response(id, Obj(<<>>))),
   JsonText("compact", Response(id, ToolListResult(TwoTools)))}

\* the lines a child may write as the response to request id, by id
ResponseLines ==
  [id \in 1..MaxReqs |->
     {<<t>> : t \in ResponseTexts(id)}
     \cup {<<t, CR>> : t \in Decorated(id)}
     \cup {<<SP, JsonText("compact", Response(id, Obj(<<>>))), SP>>}]

\* lines a child writes that answer no request
OtherLines ==
  {<<JsonText("spaced", Notification(PING))>>,
   <<JsonText("spaced", Request(9, PING)), CR>>,
   <<JsonText("compact", Num(7))>>,
   <<Junk(1)>>,
   <<Junk(1), SP, Junk(2), CR>>,
   <<Junk(1), C3, A9>>,
   <<>>, <<SP, CR>>}

\* the request the client sends for a method; a tools/call names a tool
RequestFor(id, method) ==
  IF method = TOOLS_CALL
  THEN SpreadWith(Request(id, method), "params",
                  Obj(<< <<"name", Str(SECRET)>> >>))
  ELSE Request(id, method)

\* the requests listTools writes, each followed by a newline (the params
\* of initialize, which no step reads, are left empty)
INITIALIZE == <<"i", "n", "i", "t", "i", "a", "l", "i", "z", "e">>
initializeRequest ==
  JSONstringify(SpreadWith(Request(1, INITIALIZE), "params", Obj(<<>>)))
    \o <<NL>>
toolsListRequest ==
  JSONstringify(SpreadWith(Request(2, TOOLS_LIST), "params", Obj(<<>>)))
    \o <<NL>>

\* command lines: `list-tools` or not, then at most MaxOptions options,
\* each a flag with or without a value, then a command of zero to two words
BUN == <<"b", "u", "n">>
SERVER_TS == <<"s", "e", "r", "v", "e", "r", ".", "t", "s">>
OptionValues == {ADD, GET_STAR \o <<",", " ">> \o ADD, <<",">>}
Options ==
  {<<flag>> : flag \in {ENABLED_TOOLS, DISABLED_TOOLS}}
  \cup {<<flag, value>> :
          flag \in {ENABLED_TOOLS, DISABLED_TOOLS}, value \in OptionValues}
Commands == {<<>>, <<BUN>>, <<BUN, SERVER_TS>>}
CommandLines ==
  LET RECURSIVE flat(_)
      flat(groups) ==
        IF groups = <<>> THEN <<>> ELSE Head(groups) \o flat(Tail(groups))
  IN {mode \o flat(options) \o command :
        mode \in {<<>>, <<LIST_TOOLS>>},
        options \in UNION {[1..k -> Options] : k \in 0..MaxOptions},
        command \in Commands}

\* what the target of the One-Shot Lister writes: the response to request
\* id, or a line that answers nothing; an error response comes in two parts
\* that one read need not bring together
CutLine(t) == <<Cut(1, t), Cut(2, t), NL>>
ListerToolLists == {<<>>, TwoTools, <<ToolGetArgs, ToolSecret>>}
ListerReplies(id) ==
  {CutLine(JsonText("compact", ErrorResponse(id)))}
  \cup (IF id = 1 THEN {<<JsonText("compact", Response(1, Obj(<<>>))), NL>>,
                        CutLine(JsonText("compact", Response(1, Obj(<<>>))))}
        ELSE {<<JsonText("compact", Response(2, ToolListResult(L))), CR, NL>> :
                L \in ListerToolLists}
             \cup {<<JsonText("compact", Response(2, Obj(<<>>))), NL>>,
                   CutLine(JsonText("compact",
                                    Response(2, ToolListResult(TwoTools))))})
ListerNoise == {<<JsonText("compact", Notification(PING)), NL>>}

\* the runs of the Pattern Matcher: every name and every pattern of at
\* most MaxName characters, over an alphabet that has one letter in both
\* cases and, for the patterns, the wildcard; the name comes as the one
\* tool of a tool-list response, the pattern as the one pattern of the
\* configuration
RECURSIVE Words(_, _)
Words(alphabet, len) ==
  IF len = 0 THEN {<<>>}
  ELSE LET shorter == Words(alphabet, len - 1)
       IN shorter \cup {<<x>> \o w : x \in alphabet, w \in shorter}
MatcherNames == Words({"a", "A"}, MaxName)
MatcherPatterns == Words({"a", "A", "*"}, MaxName)
MatcherConfigs ==
  {Config(TRUE, <<p>>, FALSE, <<>>) : p \in MatcherPatterns}
  \cup {Config(FALSE, <<>>, TRUE, <<p>>) : p \in MatcherPatterns}
MatcherTool(name) ==
  Obj(<< <<"name", Str(name)>>,
         <<"inputSchema", Obj(<< <<"type", OBJECT>> >>)>> >>)
MatcherLines ==
  {<<JsonText("compact", Response(1, ToolListResult(<<MatcherTool(n)>>)))>> :
     n \in MatcherNames}

\* the runs of the pump alone: the child has written a burst of at most
\* MaxBurst lines, among them a blank one, one that ends in a carriage
\* return and a tool-list response, before the pump reads
BurstLines ==
  {<<Junk(1)>>, <<Junk(2), CR>>, <<>>,
   <<JsonText("compact", Response(1, ToolListResult(TwoTools)))>>}
Bursts == UNION {[1..k -> BurstLines] : k \in 1..MaxBurst}
RECURSIVE Wire(_)
Wire(burst) ==
  IF burst = <<>> THEN <<>> ELSE Head(burst) \o <<NL>> \o Wire(Tail(burst))
BurstConfigs ==
  {Config(FALSE, <<>>, FALSE, <<>>), Config(TRUE, <<ADD>>, FALSE, <<>>)}

\* the runs that follow a session from its start to its stop: the
\* configurations, the lines the child writes, and what it may leave
\* unterminated when it exits
SessionConfigs == {Config(TRUE, <<ADD>>, FALSE, <<>>)}
SessionChunks ==
  {<<JsonText("compact", RequestFor(1, TOOLS_CALL))>>,
   <<SP, JsonText("compact", RequestFor(2, TOOLS_LIST)), CR, NL>>}
SessionLines == {<<Junk(1)>>}
LastWords == {<<>>, <<Junk(2)>>}

\* ------------------------------------------------------------------- state
VARIABLES
  config,     \* this.config
  childIn,    \* bytes written to the child's stdin
  requests,   \* the chunks the client has sent:
              \* [id, method, data, running, raised]
  emitted,    \* the lines the child has written: [raw, method, id]
  childOut,   \* bytes the child has written and the pump has not read
  buffer,     \* readLoop's buffer
  hostOut,    \* bytes written to process.stdout
  hostErr,    \* number of `Proxy error` lines written to process.stderr
  pump,       \* readLoop: "none", "reading", "done", "exited" or "ended"
  filterLog,  \* the processMessage calls made: [line, raised, out]
  targetServer,         \* McpProxyServer.targetServer
  managerTargetServer,  \* TargetServerManager.targetServer
  children,   \* the child processes spawned: [alive, stdinEnded, killed]
  starts,     \* the start calls made: [outcome, error, before]
  stops,      \* the stop calls made: [via, found, steps, fail, pc, raised]
  listeners,  \* the events of process.stdin that have a listener
  stdinOpen,  \* process.stdin has not ended
  argv,       \* process.argv.slice(2)
  pc,         \* where main or listTools stands
  exitCode,   \* the code the controller exited with, "none" while it runs
  stderrText  \* the error lines main and listTools wrote to process.stderr

trafficVars ==
  <<childIn, requests, emitted, childOut, buffer, hostOut, hostErr, filterLog>>
sessionVars == <<targetServer, pump, listeners, stdinOpen>>
managerVars == <<managerTargetServer, children, starts, stops>>
cliVars == <<argv, pc, exitCode, stderrText>>
vars == <<config, trafficVars, sessionVars, managerVars, cliVars>>

\* the child whose stdout readLoop reads: the first one spawned
ReaderChild == 1

\* A running session: start() has returned, nothing has asked it to stop.
Init ==
  /\ config \in Configs
  /\ childIn = <<>>
  /\ requests = <<>>
  /\ emitted = <<>>
  /\ childOut = <<>>
  /\ buffer = <<>>
  /\ hostOut = <<>>
  /\ hostErr = 0
  /\ filterLog = <<>>
  /\ \E r \in {start(NULL, NULL, <<>>, "spawned")} :
       /\ targetServer = r.targetServer
       /\ managerTargetServer = r.handle
       /\ children = r.children
       /\ listeners = r.listeners
       /\ pump = r.pump
       /\ starts = <<[outcome |-> "spawned", error |-> r.error,
                      before |-> NULL]>>
  /\ stops = <<>>
  /\ stdinOpen = TRUE
  /\ argv = <<>>
  /\ pc = "proxy"
  /\ exitCode = "none"
  /\ stderrText = <<>>

Answered(id) == \E k \in 1..Len(emitted) : emitted[k].id = id

\* process.stdin.on('data'): the chunk goes to the child's stdin as it is.
\* Here the client writes one request per chunk, and waits for the response
\* before it sends the next.
stdinData(method) ==
  /\ "data" \in listeners
  /\ stdinOpen
  /\ Len(requests) < MaxReqs
  /\ \A i \in 1..Len(requests) : Answered(requests[i].id)
  /\ LET id == Len(requests) + 1
         data == <<JsonText("compact", RequestFor(id, method)), NL>>
         r == onData(targetServer, children, childIn, data)
     IN /\ childIn' = r.sink
        /\ requests' =
             Append(requests,
               [id |-> id, method |-> method, data |-> data,
                raised |-> r.raised,
                running |-> /\ targetServer # NULL
                            /\ ~children[targetServer].stdinEnded])
  /\ UNCHANGED <<config, cliVars, emitted, childOut, buffer, hostOut, hostErr,
                 filterLog, sessionVars, managerVars>>

\* The same listener under a client that does not wait and writes chunks
\* that need not be lines.
stdinChunk(data) ==
  /\ "data" \in listeners
  /\ stdinOpen
  /\ Len(requests) < MaxChunks
  /\ LET r == onData(targetServer, children, childIn, data)
     IN /\ childIn' = r.sink
        /\ requests' =
             Append(requests,
               [id |-> 0, method |-> <<>>, data |-> data,
                raised |-> r.raised,
                running |-> /\ targetServer # NULL
                            /\ ~children[targetServer].stdinEnded])
  /\ UNCHANGED <<config, cliVars, emitted, childOut, buffer, hostOut, hostErr,
                 filterLog, sessionVars, managerVars>>

\* the child writes the response to a request it has received
ChildRespond(i, line) ==
  /\ Len(emitted) < MaxLines
  /\ Len(children) >= ReaderChild /\ children[ReaderChild].alive
  /\ i \in 1..Len(requests)
  /\ requests[i].running
  /\ ~Answered(requests[i].id)
  /\ line \in ResponseLines[requests[i].id]
  /\ childOut' = childOut \o line \o <<NL>>
  /\ emitted' = Append(emitted, [raw |-> line, method |-> requests[i].method,
                                 id |-> requests[i].id])
  /\ UNCHANGED <<config, cliVars, childIn, requests, buffer, hostOut, hostErr,
                 filterLog, sessionVars, managerVars>>

\* the child writes a line that answers no request
ChildEmit(line) ==
  /\ Len(emitted) < MaxLines
  /\ Len(children) >= ReaderChild /\ children[ReaderChild].alive
  /\ line \in OtherLines
  /\ childOut' = childOut \o line \o <<NL>>
  /\ emitted' = Append(emitted, [raw |-> line, method |-> <<>>, id |-> 0])
  /\ UNCHANGED <<config, cliVars, childIn, requests, buffer, hostOut, hostErr,
                 filterLog, sessionVars, managerVars>>

\* readLoop without `buffer = lines.pop()`: the lines stay in the buffer
readLoop_keepLines(n) ==
  /\ pump = "reading"
  /\ n \in 1..Len(childOut)
  /\ \E lines \in {split(buffer \o decode(SubSeq(childOut, 1, n)))} :
     \E done \in {forLines(config, SubSeq(lines, 1, Len(lines) - 1))} :
        /\ childOut' = SubSeq(childOut, n + 1, Len(childOut))
        /\ buffer' = buffer \o decode(SubSeq(childOut, 1, n))
        /\ hostOut' = hostOut \o encode(done.out)
        /\ filterLog' = filterLog \o done.calls
        /\ hostErr' = IF done.raised THEN hostErr + 1 ELSE hostErr
        /\ pump' = IF done.raised THEN "ended" ELSE whileTest(targetServer)
  /\ UNCHANGED <<config, cliVars, childIn, requests, emitted, targetServer, listeners,
                 stdinOpen, managerVars>>

\* One iteration of readLoop: a read delivers the next n bytes of the
\* child's output; the complete lines are processed and written, the text
\* after the last newline stays in the buffer; then the loop tests the
\* handle.  An exception ends the loop in its catch, with one line on
\* stderr.
readLoop(n) ==
  /\ pump = "reading"
  /\ n \in 1..Len(childOut)
  /\ \E lines \in {split(buffer \o decode(SubSeq(childOut, 1, n)))} :
     \E done \in {forLines(config, SubSeq(lines, 1, Len(lines) - 1))} :
        /\ childOut' = SubSeq(childOut, n + 1, Len(childOut))
        /\ buffer' = lines[Len(lines)]
        /\ hostOut' = hostOut \o encode(done.out)
        /\ filterLog' = filterLog \o done.calls
        /\ hostErr' = IF done.raised THEN hostErr + 1 ELSE hostErr
        /\ pump' = IF done.raised THEN "ended" ELSE whileTest(targetServer)
  /\ UNCHANGED <<config, cliVars, childIn, requests, emitted, targetServer, listeners,
                 stdinOpen, managerVars>>

\* The read that finds the end of the stream: the child has exited and all
\* it wrote has been read.  `if (done) break` leaves the loop.
readDone ==
  /\ pump = "reading"
  /\ childOut = <<>>
  /\ Len(children) >= ReaderChild /\ ~children[ReaderChild].alive
  /\ hostOut' = hostOut \o encode(onDone(config, buffer))
  /\ pump' = "done"
  /\ UNCHANGED <<config, cliVars, childIn, requests, emitted, childOut, buffer, hostErr,
                 filterLog, targetServer, listeners, stdinOpen, managerVars>>

\* ChildExit of a manager that listens for the exit of its child and drops
\* the handle
ChildExit_dropsHandle(c, lastWords) ==
  /\ c \in 1..Len(children)
  /\ children[c].alive
  /\ lastWords # <<>> => c = ReaderChild /\ pump # "none"
  /\ children' = [children EXCEPT ![c].alive = FALSE]
  /\ childOut' = childOut \o lastWords
  /\ managerTargetServer' =
       IF managerTargetServer = c THEN NULL ELSE managerTargetServer
  /\ UNCHANGED <<config, cliVars, childIn, requests, emitted, buffer, hostOut, hostErr,
                 filterLog, sessionVars, starts, stops>>

\* A child exits: on its own, or after the signal.  The child of the session
\* may leave bytes without a newline behind it.
ChildExit(c, lastWords) ==
  /\ c \in 1..Len(children)
  /\ children[c].alive
  /\ lastWords # <<>> => c = ReaderChild /\ pump # "none"
  /\ children' = [children EXCEPT ![c].alive = FALSE]
  /\ childOut' = childOut \o lastWords
  /\ UNCHANGED <<config, cliVars, childIn, requests, emitted, buffer, hostOut, hostErr,
                 filterLog, sessionVars, managerTargetServer, starts, stops>>

\* A call of startTargetServer by a user of the manager.
ManagerStart(outcome) ==
  /\ Len(starts) < MaxStarts
  /\ \E r \in {startTargetServer(managerTargetServer, children, outcome)} :
       /\ managerTargetServer' = r.handle
       /\ children' = r.children
       /\ starts' = Append(starts, [outcome |-> outcome, error |-> r.error,
                                    before |-> managerTargetServer])
  /\ UNCHANGED <<config, cliVars, trafficVars, sessionVars, stops>>

\* A call of McpProxyServer.start (cli.ts calls it once).  Nothing can run
\* between startTargetServer, which has no await, and the statements after
\* `await`: they run in the same turn of the event loop.
startCall(outcome) ==
  /\ \E r \in {start(targetServer, managerTargetServer, children, outcome)} :
       /\ targetServer' = r.targetServer
       /\ managerTargetServer' = r.handle
       /\ children' = r.children
       /\ listeners' = listeners \cup r.listeners
       /\ pump' = IF r.error = "none" THEN r.pump ELSE pump
       /\ starts' = Append(starts, [outcome |-> outcome, error |-> r.error,
                                    before |-> managerTargetServer])
  /\ UNCHANGED <<config, cliVars, trafficVars, stdinOpen, stops>>

\* The one call of McpProxyServer.start that main makes.
McpProxyServer_start(outcome) ==
  /\ starts = <<>>
  /\ startCall(outcome)

\* A call of McpProxyServer.start at any time: the method itself tests
\* nothing before it asks the manager for a child.
McpProxyServer_startAgain(outcome) ==
  /\ Len(starts) < MaxStarts
  /\ startCall(outcome)

\* A stop call up to the end of its turn of the event loop: stopTargetServer
\* to its await of process.exited or to its return and, for a call made
\* through McpProxyServer.stop whose stopTargetServer has returned, the
\* `this.targetServer = null` that follows `await` in the same turn.
stopCall(via, fail) ==
  /\ Len(stops) < MaxStops
  /\ managerTargetServer = NULL => fail = "none"
  /\ \E r \in {stopTargetServer(managerTargetServer, children, fail)} :
       /\ managerTargetServer' = r.handle
       /\ children' = r.children
       /\ targetServer' =
            IF via # "manager" /\ ~r.awaiting /\ ~r.raised
            THEN sessionClear(targetServer) ELSE targetServer
       /\ stops' =
            Append(stops,
              [via |-> via, found |-> r.found, steps |-> r.steps,
               fail |-> IF r.found = NULL THEN "none" ELSE fail,
               raised |-> r.raised,
               pc |-> IF r.awaiting THEN "awaiting" ELSE "returned"])
  /\ UNCHANGED <<config, cliVars, trafficVars, pump, listeners, starts>>

\* A call of stopTargetServer by a user of the manager.
ManagerStop(fail) ==
  /\ stopCall("manager", fail)
  /\ UNCHANGED stdinOpen

\* A call of McpProxyServer.stop from a signal handler of cli.ts.
McpProxyServer_stop(fail) ==
  /\ starts # <<>>
  /\ stopCall("signal", fail)
  /\ UNCHANGED stdinOpen

\* process.stdin.on('end'): void this.stop()
stdinEnd(fail) ==
  /\ "end" \in listeners
  /\ stdinOpen
  /\ stdinOpen' = FALSE
  /\ stopCall("end", fail)

\* the stop calls that wait for the exit of child c
Awaiting(c) ==
  {i \in 1..Len(stops) : stops[i].pc = "awaiting" /\ stops[i].found = c}

\* The promise process.exited of child c settles: it resolves once the
\* child has exited, or it rejects.  Every stop call that awaits it goes on
\* in the same turn: catch, finally and, through McpProxyServer.stop,
\* `this.targetServer = null`.
stopTargetServer_resume(c) ==
  /\ Awaiting(c) # {}
  /\ \E failed \in {IF children[c].alive THEN "exited" ELSE "none"} :
     \E raised \in {catchCleanup(failed)} :
       /\ children[c].alive => \E i \in Awaiting(c) : stops[i].fail = "exited"
       /\ managerTargetServer' = finallyClear(managerTargetServer)
       /\ targetServer' =
            IF ~raised /\ \E i \in Awaiting(c) : stops[i].via # "manager"
            THEN sessionClear(targetServer) ELSE targetServer
       /\ stops' = [i \in 1..Len(stops) |->
                      IF i \in Awaiting(c)
                      THEN [stops[i] EXCEPT !.pc = "returned",
                                            !.fail = failed,
                                            !.raised = raised]
                      ELSE stops[i]]
  /\ UNCHANGED <<config, cliVars, trafficVars, pump, listeners, stdinOpen, children,
                 starts>>

\* the child whose stdout listTools reads
ListerChild == 1

\* main up to the end of parseArguments (cli.ts:381-388): a rejected
\* command line has written its error and exited with code 1
main ==
  /\ pc = "main"
  /\ LET r == parseArguments(argv)
     IN IF r.error # "none"
        THEN /\ stderrText' = Append(stderrText,
                                [what |-> r.error, message |-> <<>>])
             /\ exitCode' = "1"
             /\ pc' = "exited"
             /\ config' = config
        ELSE /\ config' = r.config
             /\ pc' = r.mode
             /\ UNCHANGED <<stderrText, exitCode>>
  /\ UNCHANGED <<argv, trafficVars, sessionVars, managerVars>>

\* main in proxy mode (cli.ts:390-409): the session is constructed and
\* started; an error of start is written and the controller exits
main_proxy(outcome) ==
  /\ pc = "proxy"
  /\ argv # <<>>
  /\ starts = <<>>
  /\ \E r \in {start(targetServer, managerTargetServer, children, outcome)} :
       /\ targetServer' = r.targetServer
       /\ managerTargetServer' = r.handle
       /\ children' = r.children
       /\ listeners' = listeners \cup r.listeners
       /\ pump' = IF r.error = "none" THEN r.pump ELSE pump
       /\ starts' = Append(starts, [outcome |-> outcome, error |-> r.error,
                                    before |-> managerTargetServer])
       /\ IF r.error = "none" THEN UNCHANGED <<pc, exitCode, stderrText>>
          ELSE /\ stderrText' = Append(stderrText,
                                  [what |-> r.error, message |-> <<>>])
               /\ exitCode' = "1"
               /\ pc' = "exited"
  /\ UNCHANGED <<config, argv, trafficVars, stdinOpen, stops>>

\* the catch of listTools (cli.ts:371-373): the error is written and
\* process.exit(1) ends the controller there and then; the finally block
\* after it is never reached
catchListTools(thrown) ==
  /\ stderrText' = Append(stderrText,
                     [what |-> thrown.what, message |-> thrown.message])
  /\ exitCode' = "1"
  /\ pc' = "exited"

\* listTools to its first await of reader.read() (cli.ts:272-302)
listTools_start(outcome) ==
  /\ pc = "list-tools"
  /\ \E r \in {startTargetServer(managerTargetServer, children, outcome)} :
       /\ managerTargetServer' = r.handle
       /\ children' = r.children
       /\ starts' = Append(starts, [outcome |-> outcome, error |-> r.error,
                                    before |-> managerTargetServer])
       /\ IF r.error # "none"
          THEN /\ catchListTools(Thrown(r.error, <<>>))
               /\ UNCHANGED childIn
          ELSE /\ childIn' = write(r.children[r.handle], childIn,
                                   initializeRequest)
               /\ pc' = "initRead"
               /\ UNCHANGED <<exitCode, stderrText>>
  /\ UNCHANGED <<config, argv, requests, emitted, childOut, buffer, hostOut,
                 hostErr, filterLog, sessionVars, stops>>

\* canRead with a read that never resolves on a stream that has ended
canRead_neverEnds(n) == n \in 1..Len(childOut)

\* a reader.read() of the lister resolves: with the first n bytes the child
\* has written, or, n = 0, with no value because the stream has ended
canRead(n) ==
  IF n = 0
  THEN childOut = <<>> /\ ~children[ListerChild].alive
  ELSE n \in 1..Len(childOut)

\* listTools from the first read to the second (cli.ts:302-328)
listTools_initRead(n) ==
  /\ pc = "initRead"
  /\ canRead(n)
  /\ childOut' = SubSeq(childOut, n + 1, Len(childOut))
  /\ LET r == readInitResponse(SubSeq(childOut, 1, n))
     IN /\ filterLog' = Append(filterLog,
                          [line |-> SubSeq(childOut, 1, n), raised |-> r.threw,
                           out |-> r.what])
        /\ IF r.threw
           THEN /\ catchListTools(r)
                /\ UNCHANGED childIn
           ELSE /\ childIn' = write(children[ListerChild], childIn,
                                    toolsListRequest)
                /\ pc' = "toolsRead"
                /\ UNCHANGED <<exitCode, stderrText>>
  /\ UNCHANGED <<config, argv, requests, emitted, buffer, hostOut, hostErr,
                 sessionVars, managerVars>>

\* one turn of the while loop of listTools (cli.ts:327-378): the read, the
\* lines of toolsBuffer and, when a line made the function return, the
\* finally block up to the await inside stopTargetServer
listTools_toolsRead(n, fail) ==
  /\ pc = "toolsRead"
  /\ canRead(n)
  /\ childOut' = SubSeq(childOut, n + 1, Len(childOut))
  /\ IF n = 0
     THEN /\ catchListTools(Thrown("No tools/list response received", <<>>))
          /\ fail = "none"
          /\ UNCHANGED <<buffer, hostOut, managerVars>>
     ELSE \E toolsBuffer \in {concat(buffer, decode(SubSeq(childOut, 1, n)))} :
          \E r \in {scanLines(config, split(toolsBuffer))} :
          \E stop \in {stopTargetServer(managerTargetServer, children, fail)} :
             /\ buffer' = toolsBuffer
             /\ hostOut' = hostOut \o encode(r.out)
             /\ IF r.returns
                THEN /\ pc' = "finally"
                     /\ managerTargetServer' = stop.handle
                     /\ children' = stop.children
                     /\ stops' = Append(stops,
                          [via |-> "manager", found |-> stop.found,
                           steps |-> stop.steps, fail |-> fail,
                           raised |-> stop.raised,
                           pc |-> IF stop.awaiting THEN "awaiting"
                                  ELSE "returned"])
                     /\ UNCHANGED starts
                ELSE /\ fail = "none"
                     /\ UNCHANGED <<pc, managerVars>>
             /\ UNCHANGED <<exitCode, stderrText>>
  /\ UNCHANGED <<config, argv, childIn, requests, emitted, hostErr, filterLog,
                 sessionVars>>

\* listTools and main return once stopTargetServer has (cli.ts:376-387),
\* and the controller, with nothing left to wait for, exits with code 0
main_return ==
  /\ pc = "finally"
  /\ \A i \in 1..Len(stops) : stops[i].pc = "returned"
  /\ pc' = "returned"
  /\ exitCode' = "0"
  /\ UNCHANGED <<config, argv, stderrText, trafficVars, sessionVars,
                 managerVars>>

\* the target writes a line: the response to a request it has been sent,
\* or a line that answers nothing
serverWrite(line) ==
  /\ Len(emitted) < MaxReplies
  /\ Len(children) >= ListerChild /\ children[ListerChild].alive
  /\ \/ line \in ListerNoise
     \/ line \in ListerReplies(1) /\ childIn # <<>>
     \/ line \in ListerReplies(2) /\ Len(childIn) > Len(initializeRequest)
  /\ emitted' = Append(emitted, line)
  /\ childOut' = childOut \o line
  /\ UNCHANGED <<config, cliVars, childIn, requests, buffer, hostOut, hostErr,
                 filterLog, sessionVars, managerVars>>

\* The traffic of a running session.
Next ==
  \/ \E method \in Methods : stdinData(method)
  \/ \E i \in 1..MaxReqs : \E line \in ResponseLines[i] : ChildRespond(i, line)
  \/ \E line \in OtherLines : ChildEmit(line)
  \/ \E n \in 1..Len(childOut) : readLoop(n)

Spec == Init /\ [][Next]_vars

\* A TargetServerManager and the calls its users make, in any order and
\* overlapping.
ManagerInit ==
  /\ config = Config(FALSE, <<>>, FALSE, <<>>)
  /\ childIn = <<>>
  /\ requests = <<>>
  /\ emitted = <<>>
  /\ childOut = <<>>
  /\ buffer = <<>>
  /\ hostOut = <<>>
  /\ hostErr = 0
  /\ filterLog = <<>>
  /\ targetServer = NULL
  /\ pump = "none"
  /\ listeners = {}
  /\ stdinOpen = TRUE
  /\ argv = <<>>
  /\ pc = "proxy"
  /\ exitCode = "none"
  /\ stderrText = <<>>
  /\ managerTargetServer = NULL
  /\ children = <<>>
  /\ starts = <<>>
  /\ stops = <<>>

ManagerNext ==
  \/ \E outcome \in SpawnOutcomes : ManagerStart(outcome)
  \/ \E fail \in CleanupFailures : ManagerStop(fail)
  \/ \E c \in 1..MaxStarts : stopTargetServer_resume(c)
  \/ \E c \in 1..MaxStarts : ChildExit(c, <<>>)

ManagerSpec == ManagerInit /\ [][ManagerNext]_vars

\* A session from the construction of McpProxyServer on: one start, then
\* the two pumps and any number of stops.
SessionInit ==
  /\ config \in SessionConfigs
  /\ childIn = <<>>
  /\ requests = <<>>
  /\ emitted = <<>>
  /\ childOut = <<>>
  /\ buffer = <<>>
  /\ hostOut = <<>>
  /\ hostErr = 0
  /\ filterLog = <<>>
  /\ targetServer = NULL
  /\ pump = "none"
  /\ listeners = {}
  /\ stdinOpen = TRUE
  /\ argv = <<>>
  /\ pc = "proxy"
  /\ exitCode = "none"
  /\ stderrText = <<>>
  /\ managerTargetServer = NULL
  /\ children = <<>>
  /\ starts = <<>>
  /\ stops = <<>>

SessionNext ==
  \/ \E outcome \in SpawnOutcomes : McpProxyServer_start(outcome)
  \/ \E fail \in CleanupFailures : McpProxyServer_stop(fail)
  \/ \E fail \in CleanupFailures : stdinEnd(fail)
  \/ stopTargetServer_resume(ReaderChild)
  \/ \E lastWords \in LastWords : ChildExit(ReaderChild, lastWords)
  \/ \E data \in SessionChunks : stdinChunk(data)
  \/ \E line \in SessionLines : ChildEmit(line)
  \/ \E n \in 1..Len(childOut) : readLoop(n)
  \/ readDone

SessionSpec == SessionInit /\ [][SessionNext]_vars

\* A session whose owner calls start and stop in any order: the calls, the
\* input of the host and the exits of the children, without the output of
\* the children.
RestartNext ==
  \/ \E outcome \in SpawnOutcomes : McpProxyServer_startAgain(outcome)
  \/ \E fail \in CleanupFailures : McpProxyServer_stop(fail)
  \/ \E fail \in CleanupFailures : stdinEnd(fail)
  \/ \E c \in 1..MaxStarts : stopTargetServer_resume(c)
  \/ \E c \in 1..MaxStarts : ChildExit(c, <<>>)
  \/ \E data \in SessionChunks : stdinChunk(data)

RestartSpec == SessionInit /\ [][RestartNext]_vars

\* A child that got the signal of process.kill() exits.
killedExit ==
  /\ children # <<>>
  /\ children[ReaderChild].killed
  /\ \E lastWords \in LastWords : ChildExit(ReaderChild, lastWords)

\* The session under the scheduling the runtime gives: a killed child exits,
\* and a stop call whose process.exited has settled goes on.  A child that
\* was not killed may run for ever, and nothing obliges the host to close
\* the input or to send a signal.
SessionLive ==
  /\ SessionSpec
  /\ WF_vars(killedExit)
  /\ WF_vars(stopTargetServer_resume(ReaderChild))

\* The controller from its command line to the start of the target.
CliInit ==
  /\ config = Config(FALSE, <<>>, FALSE, <<>>)
  /\ childIn = <<>>
  /\ requests = <<>>
  /\ emitted = <<>>
  /\ childOut = <<>>
  /\ buffer = <<>>
  /\ hostOut = <<>>
  /\ hostErr = 0
  /\ filterLog = <<>>
  /\ targetServer = NULL
  /\ pump = "none"
  /\ listeners = {}
  /\ stdinOpen = TRUE
  /\ managerTargetServer = NULL
  /\ children = <<>>
  /\ starts = <<>>
  /\ stops = <<>>
  /\ argv \in CommandLines
  /\ pc = "main"
  /\ exitCode = "none"
  /\ stderrText = <<>>

CliNext ==
  \/ main
  \/ \E outcome \in SpawnOutcomes : main_proxy(outcome)
  \/ \E outcome \in SpawnOutcomes : listTools_start(outcome)

CliSpec == CliInit /\ [][CliNext]_vars

\* listTools(config) from its call to the exit of the controller, against
\* a target that answers the requests it is sent.
ListerInit ==
  /\ config \in Configs
  /\ childIn = <<>>
  /\ requests = <<>>
  /\ emitted = <<>>
  /\ childOut = <<>>
  /\ buffer = <<>>
  /\ hostOut = <<>>
  /\ hostErr = 0
  /\ filterLog = <<>>
  /\ targetServer = NULL
  /\ pump = "none"
  /\ listeners = {}
  /\ stdinOpen = TRUE
  /\ managerTargetServer = NULL
  /\ children = <<>>
  /\ starts = <<>>
  /\ stops = <<>>
  /\ argv = <<>>
  /\ pc = "list-tools"
  /\ exitCode = "none"
  /\ stderrText = <<>>

ListerNext ==
  \/ \E outcome \in SpawnOutcomes : listTools_start(outcome)
  \/ \E n \in 0..Len(childOut) : listTools_initRead(n)
  \/ \E n \in 0..Len(childOut), fail \in CleanupFailures :
       listTools_toolsRead(n, fail)
  \/ \E line \in ListerReplies(1) \cup ListerReplies(2) \cup ListerNoise :
       serverWrite(line)
  \/ ChildExit(ListerChild, <<>>)
  \/ stopTargetServer_resume(ListerChild)
  \/ main_return

ListerSpec == ListerInit /\ [][ListerNext]_vars

\* The lister under the scheduling the runtime gives: an awaited
\* reader.read() resolves once the stream holds bytes or has ended.  The
\* target itself is obliged to nothing: it may never answer and never exit.
\* (The last conjunct is the weak fairness of the loop's read, with the
\* condition under which that read can resolve written out.)  Whether the
\* lister comes to an end does not depend on the filter, which acts on
\* the line that ends it only; two configurations are followed.
ListerLiveConfigs ==
  {Config(FALSE, <<>>, FALSE, <<>>), Config(TRUE, <<ADD>>, FALSE, <<>>)}
ListerLiveInit == ListerInit /\ config \in ListerLiveConfigs
ListerLive ==
  /\ ListerLiveInit /\ [][ListerNext]_vars
  /\ WF_vars(\E n \in 0..Len(childOut) : listTools_initRead(n))
  /\ \/ []<>~(pc = "toolsRead" /\ \E n \in 0..Len(childOut) : canRead(n))
     \/ []<><<\E n \in 0..Len(childOut), fail \in CleanupFailures :
                 listTools_toolsRead(n, fail)>>_vars

\* The Pattern Matcher where the proxy calls it: a running session whose
\* child has written a tool-list response that lists one tool, and whose
\* configuration holds one pattern; the pump reads the line, in one read
\* or in two, and the Message Filter asks the matcher.
MatcherInit ==
  /\ config \in MatcherConfigs
  /\ childIn = <<>>
  /\ requests = <<>>
  /\ \E line \in MatcherLines :
       /\ emitted = <<[raw |-> line, method |-> <<>>, id |-> 0]>>
       /\ childOut = line \o <<NL>>
  /\ buffer = <<>>
  /\ hostOut = <<>>
  /\ hostErr = 0
  /\ filterLog = <<>>
  /\ \E r \in {start(NULL, NULL, <<>>, "spawned")} :
       /\ targetServer = r.targetServer
       /\ managerTargetServer = r.handle
       /\ children = r.children
       /\ listeners = r.listeners
       /\ pump = r.pump
       /\ starts = <<[outcome |-> "spawned", error |-> r.error,
                      before |-> NULL]>>
  /\ stops = <<>>
  /\ stdinOpen = TRUE
  /\ argv = <<>>
  /\ pc = "proxy"
  /\ exitCode = "none"
  /\ stderrText = <<>>

MatcherNext == \E n \in 1..Len(childOut) : readLoop(n)

MatcherSpec == MatcherInit /\ [][MatcherNext]_vars

\* The pump alone: a running session whose child has written a burst of
\* lines; the reads bring the bytes in every possible cutting.
BurstInit ==
  /\ config \in BurstConfigs
  /\ childIn = <<>>
  /\ requests = <<>>
  /\ \E burst \in Bursts :
       /\ emitted = [i \in 1..Len(burst) |->
                      [raw |-> burst[i], method |-> <<>>, id |-> 0]]
       /\ childOut = Wire([i \in 1..Len(burst) |-> burst[i]])
  /\ buffer = <<>>
  /\ hostOut = <<>>
  /\ hostErr = 0
  /\ filterLog = <<>>
  /\ \E r \in {start(NULL, NULL, <<>>, "spawned")} :
       /\ targetServer = r.targetServer
       /\ managerTargetServer = r.handle
       /\ children = r.children
       /\ listeners = r.listeners
       /\ pump = r.pump
       /\ starts = <<[outcome |-> "spawned", error |-> r.error,
                      before |-> NULL]>>
  /\ stops = <<>>
  /\ stdinOpen = TRUE
  /\ argv = <<>>
  /\ pc = "proxy"
  /\ exitCode = "none"
  /\ stderrText = <<>>

BurstNext == \E n \in 1..Len(childOut) : readLoop(n)

BurstSpec == BurstInit /\ [][BurstNext]_vars

\* ------------------------------------------------------ reading the runs
\* the lines written to the host's output so far (each ended by a newline)
OutLines == LET p == split(hostOut) IN SubSeq(p, 1, Len(p) - 1)

\* a response: an object with `result` and neither `method` nor `error`
LooksLikeResponse(v) ==
  IsObj(v) /\ Has(v, "result") /\ ~Has(v, "method") /\ ~Has(v, "error")

\* the filtered shape of the specification: a result with a tools array of
\* objects that each bear a name string
ToolListShaped(result) ==
  /\ IsObj(result)
  /\ Has(result, "tools")
  /\ IsArr(Get(result, "tools"))
  /\ \A i \in 1..Len(Get(result, "tools").el) :
       LET tool == Get(result, "tools").el[i]
       IN IsObj(tool) /\ Has(tool, "name") /\ IsStr(Get(tool, "name"))

\* a text that is a tool-list response
IsToolListText(text) ==
  /\ ~JSONparse(text).threw
  /\ LooksLikeResponse(JSONparse(text).val)
  /\ ToolListShaped(Get(JSONparse(text).val, "result"))

ToolsOf(text) == Get(Get(JSONparse(text).val, "result"), "tools").el

MatchesAny(patterns, name) ==
  \E i \in 1..Len(patterns) : matchesToolPattern(name, patterns[i])

\* the configuration hides the tool of this name
Hidden(cfg, name) ==
  IF cfg.hasEnabled THEN ~MatchesAny(cfg.enabledTools, name)
  ELSE cfg.hasDisabled /\ MatchesAny(cfg.disabledTools, name)

\* the calls of processMessage that went through filterToolsListResponse
FilteredCalls ==
  {k \in 1..Len(filterLog) :
     /\ ~JSONparse(filterLog[k].line).threw
     /\ LET parsed == JSONRPCMessageSchema_safeParse(JSONparse(filterLog[k].line).val)
        IN /\ parsed.success
           /\ isResponse(parsed.data)
           /\ ListToolsResultSchema_safeParse(Get(parsed.data, "result")).success}

\* Equality of JSON values up to the order of object keys.
RECURSIVE LEq(_, _)
LEq(a, b) ==
  IF a.t # b.t THEN FALSE
  ELSE IF IsObj(a)
    THEN /\ Keys(a) = Keys(b)
         /\ Len(a.kv) = Len(b.kv)
         /\ \A k \in Keys(a) : LEq(Get(a, k), Get(b, k))
  ELSE IF IsArr(a)
    THEN /\ Len(a.el) = Len(b.el)
         /\ \A i \in 1..Len(a.el) : LEq(a.el[i], b.el[i])
  ELSE a = b

\* the j-th smallest member of a set of indices
Nth(S, j) == CHOOSE m \in S : Cardinality({x \in S : x <= m}) = j

\* `kept` is `tools` restricted to the positions in S, in order, each tool
\* with the same fields
KeepsExactly(kept, tools, S) ==
  /\ Len(kept) = Cardinality(S)
  /\ \A j \in 1..Len(kept) : LEq(kept[j], tools[Nth(S, j)])

\* C1: no line written to the host's output is a tool-list response (a
\* result with a tools array of objects bearing a name string, whatever
\* else the tools carry or lack) that contains a tool the active
\* include/exclude configuration hides.
C1_NoHiddenToolForwarded ==
  \A k \in 1..Len(OutLines) :
    IsToolListText(OutLines[k]) =>
      \A i \in 1..Len(ToolsOf(OutLines[k])) :
        ~Hidden(config, ToolName(ToolsOf(OutLines[k])[i]))

\* C2: with enabledTools set, the tools array of a filtered tool-list
\* response holds exactly the tools whose name matches at least one pattern,
\* in their original order, none added or duplicated.
C2_IncludeKeepsExactlyMatching ==
  config.hasEnabled =>
    \A k \in FilteredCalls :
      LET tools == ToolsOf(filterLog[k].line)
          S == {i \in 1..Len(tools) :
                  MatchesAny(config.enabledTools, ToolName(tools[i]))}
      IN /\ ~filterLog[k].raised
         /\ IsToolListText(filterLog[k].out)
         /\ KeepsExactly(ToolsOf(filterLog[k].out), tools, S)

\* C2 witness: an include filter kept one of two listed tools.
C2_Witness ==
  /\ config.hasEnabled
  /\ \E k \in FilteredCalls :
       /\ Len(ToolsOf(filterLog[k].line)) = 2
       /\ Len(ToolsOf(filterLog[k].out)) = 1
       /\ OutLines # <<>>

\* C3: with disabledTools set (and enabledTools not), the tools array of a
\* filtered tool-list response holds exactly the tools whose name matches
\* none of the patterns, in their original order.
C3_ExcludeKeepsExactlyUnmatched ==
  (config.hasDisabled /\ ~config.hasEnabled) =>
    \A k \in FilteredCalls :
      LET tools == ToolsOf(filterLog[k].line)
          S == {i \in 1..Len(tools) :
                  ~MatchesAny(config.disabledTools, ToolName(tools[i]))}
      IN /\ ~filterLog[k].raised
         /\ IsToolListText(filterLog[k].out)
         /\ KeepsExactly(ToolsOf(filterLog[k].out), tools, S)

\* C3 witness: an exclude filter dropped one of two listed tools.
C3_Witness ==
  /\ config.hasDisabled /\ ~config.hasEnabled
  /\ \E k \in FilteredCalls :
       /\ Len(ToolsOf(filterLog[k].line)) = 2
       /\ Len(ToolsOf(filterLog[k].out)) = 1
       /\ OutLines # <<>>

\* C4: the response to a request other than tools/list reaches the client
\* with the content the child gave it (the whitespace around a line is the
\* subject of C6), whatever its result contains.
C4_OnlyToolsListResponsesRewritten ==
  \A k \in 1..Len(OutLines) :
    (emitted[k].id # 0 /\ emitted[k].method # TOOLS_LIST) =>
      OutLines[k] = trim(emitted[k].raw)

\* C5: for a line that parses as a request, a notification, an error
\* response, or a response whose result is not tool-list-shaped,
\* processMessage returns the line itself.
C5_Covered(line) ==
  /\ ~JSONparse(line).threw
  /\ IsObj(JSONparse(line).val)
  /\ LET v == JSONparse(line).val
     IN \/ Has(v, "method")
        \/ Has(v, "error")
        \/ (Has(v, "result") /\ ~ToolListShaped(Get(v, "result")))

C5_PassThroughIsVerbatim ==
  \A k \in 1..Len(filterLog) :
    C5_Covered(filterLog[k].line) =>
      ~filterLog[k].raised /\ filterLog[k].out = filterLog[k].line

\* C5 witness: a response without a tools array, in a layout JSON.stringify
\* would not produce, went through processMessage and was written.
C5_Witness ==
  \E k \in 1..Len(filterLog) :
    /\ C5_Covered(filterLog[k].line)
    /\ filterLog[k].line[1].layout = "spaced"
    /\ Has(JSONparse(filterLog[k].line).val, "result")
    /\ OutLines # <<>>

\* C6: every complete line the child emits that is not a tool-list response
\* reaches the host's output identical, leading and trailing whitespace
\* included.  (A blank line, which the pump forwards as a bare newline, is
\* left out.)
C6_NonToolListLinesByteIdentical ==
  \A k \in 1..Len(OutLines) :
    (trim(emitted[k].raw) # <<>> /\ ~IsToolListText(trim(emitted[k].raw))) =>
      OutLines[k] = emitted[k].raw

\* C7: for a line that is not valid JSON or is no JSON-RPC message,
\* processMessage returns the line unchanged and raises nothing, so the
\* pump never ends in its catch.
C7_Malformed(line) ==
  \/ JSONparse(line).threw
  \/ ~JSONRPCMessageSchema_safeParse(JSONparse(line).val).success

C7_MalformedPassesThrough ==
  /\ pump = "reading" /\ hostErr = 0
  /\ \A k \in 1..Len(filterLog) :
       C7_Malformed(filterLog[k].line) =>
         ~filterLog[k].raised /\ filterLog[k].out = filterLog[k].line

\* C7 witness: a line that is not JSON went through processMessage and was
\* written.
C7_Witness ==
  \E k \in 1..Len(filterLog) :
    /\ JSONparse(filterLog[k].line).threw
    /\ OutLines # <<>>

\* C8: when a tool-list response is filtered, the outer message keeps its
\* fields, the result keeps every field but tools, and each retained tool
\* is a tool of the input with the same fields, in the input's order.
C8_SameButTools(inp, out) ==
  /\ Keys(out) = Keys(inp)
  /\ \A key \in Keys(inp) \ {"result"} : LEq(Get(out, key), Get(inp, key))
  /\ LET ri == Get(inp, "result")
         ro == Get(out, "result")
     IN /\ IsObj(ro)
        /\ Keys(ro) = Keys(ri)
        /\ \A key \in Keys(ri) \ {"tools"} : LEq(Get(ro, key), Get(ri, key))
        /\ IsArr(Get(ro, "tools"))
        /\ \E S \in SUBSET (1..Len(Get(ri, "tools").el)) :
             KeepsExactly(Get(ro, "tools").el, Get(ri, "tools").el, S)

C8_OnlyToolsChange ==
  \A k \in FilteredCalls :
    /\ ~filterLog[k].raised
    /\ ~JSONparse(filterLog[k].out).threw
    /\ C8_SameButTools(JSONparse(filterLog[k].line).val,
                       JSONparse(filterLog[k].out).val)

\* C8 witness: a filter dropped a tool from a result that has other fields
\* and kept a tool that has fields the schema does not name.
C8_Witness ==
  \E k \in FilteredCalls :
    /\ Has(Get(JSONparse(filterLog[k].line).val, "result"), "vendor")
    /\ Len(ToolsOf(filterLog[k].out)) < Len(ToolsOf(filterLog[k].line))
    /\ \E i \in 1..Len(ToolsOf(filterLog[k].out)) :
         Has(ToolsOf(filterLog[k].out)[i], "vendor")

\* C9: with neither enabledTools nor disabledTools set, the output for a
\* tool-list response parses to a value equal to the parsed input up to
\* the order of object keys.
C9_NoFilterRoundTrip ==
  (~config.hasEnabled /\ ~config.hasDisabled) =>
    \A k \in 1..Len(filterLog) :
      IsToolListText(filterLog[k].line) =>
        /\ ~filterLog[k].raised
        /\ ~JSONparse(filterLog[k].out).threw
        /\ LEq(JSONparse(filterLog[k].out).val, JSONparse(filterLog[k].line).val)

\* C9 witness: without filters, a tool-list response was re-serialised to
\* other bytes.
C9_Witness ==
  /\ ~config.hasEnabled /\ ~config.hasDisabled
  /\ \E k \in FilteredCalls :
       /\ filterLog[k].out # filterLog[k].line
       /\ Len(ToolsOf(filterLog[k].line)) = 2

\* C10: for every pattern set, the tools kept with the set as enabledTools
\* and the tools kept with it as disabledTools are disjoint and together
\* are the original tool list.
C10_Parts(k, P) ==
  LET result == ListToolsResultSchema_safeParse(
                  Get(JSONRPCMessageSchema_safeParse(
                        JSONparse(filterLog[k].line).val).data, "result")).data
  IN [all |-> Get(result, "tools").el,
      inc |-> Get(filterToolsListResponse(Config(TRUE, P, FALSE, <<>>), result),
                  "tools").el,
      exc |-> Get(filterToolsListResponse(Config(FALSE, <<>>, TRUE, P), result),
                  "tools").el]

Elems(seq) == {seq[i] : i \in 1..Len(seq)}

C10_IncludeExcludePartition ==
  \A k \in FilteredCalls : \A P \in PatternSets :
    LET parts == C10_Parts(k, P)
    IN /\ Elems(parts.inc) \cap Elems(parts.exc) = {}
       /\ Elems(parts.inc) \cup Elems(parts.exc) = Elems(parts.all)
       /\ Len(parts.inc) + Len(parts.exc) = Len(parts.all)

\* C10 witness: a filtered tool list that some pattern set splits into two
\* non-empty parts.
C10_Witness ==
  \E k \in FilteredCalls : \E P \in PatternSets :
    /\ C10_Parts(k, P).inc # <<>>
    /\ C10_Parts(k, P).exc # <<>>

\* every byte the child has written: its lines, each ended by a newline
RECURSIVE Written(_)
Written(lines) ==
  IF lines = <<>> THEN <<>>
  ELSE Head(lines).raw \o <<NL>> \o Written(Tail(lines))

\* the bytes the reads have delivered so far
Consumed ==
  SubSeq(Written(emitted), 1, Len(Written(emitted)) - Len(childOut))

\* what the pump writes when these bytes arrive in a single read
OneRead(bytes) ==
  LET lines == split(decode(bytes))
  IN encode(forLines(config, SubSeq(lines, 1, Len(lines) - 1)).out)

\* C11: however the reads cut the bytes the child has produced, between
\* lines, inside a line or inside a multi-byte character, the pump has
\* written what it writes when the same bytes arrive in one read.
C11_ChunkingDoesNotMatter ==
  pump = "reading" => hostOut = OneRead(Consumed)

\* C12: when the child's output has ended while the buffer holds text with
\* no newline after it, the host's output holds what the complete lines
\* gave and nothing of the partial line.
C12_PartialLineDiscarded ==
  (pump = "done" /\ buffer # <<>>) =>
    /\ hostOut = OneRead(Written(emitted))
    /\ Len(OutLines) = Len(emitted)

\* C12 witness: the child wrote a line and part of another and exited; the
\* pump wrote the line, read the part and met the end of the stream.
C12_Witness ==
  /\ pump = "done"
  /\ buffer = <<Junk(2)>>
  /\ Len(emitted) = 1
  /\ Len(OutLines) = 1

\* the chunks that reached the host's input while the session was running
\* (its handle set, no stop under way), one after the other
RECURSIVE SentWhileRunning(_)
SentWhileRunning(chunks) ==
  IF chunks = <<>> THEN <<>>
  ELSE (IF Head(chunks).running THEN Head(chunks).data ELSE <<>>)
       \o SentWhileRunning(Tail(chunks))

\* C13: the bytes written to the child's input are the chunks received
\* while the session was running, unmodified, in the order of arrival and
\* nothing else, a tools/call that names a hidden tool included; the listener
\* raises nothing.
C13_StdinForwardedVerbatim ==
  /\ childIn = SentWhileRunning(requests)
  /\ \A i \in 1..Len(requests) : ~requests[i].raised

\* C13 witness: the client wrote a tools/call for a tool the configuration
\* hides, without its newline, then a chunk that starts with whitespace;
\* both are in the child's input.
C13_Witness ==
  /\ Hidden(config, SECRET)
  /\ Len(requests) = 2
  /\ requests[1].running /\ requests[2].running
  /\ requests[1].data = <<JsonText("compact", RequestFor(1, TOOLS_CALL))>>
  /\ Get(Get(requests[1].data[1].val, "params"), "name") = Str(SECRET)
  /\ Head(requests[2].data) = SP
  /\ childIn = requests[1].data \o requests[2].data

\* C14: a call of startTargetServer that finds a handle fails with the
\* `already running` error, spawns nothing and leaves the handle and every
\* child as they were.
C14_SecondStartRefused ==
  [][(Len(starts') = Len(starts) + 1 /\ managerTargetServer # NULL) =>
       /\ starts'[Len(starts')].error = "Target server is already running"
       /\ children' = children
       /\ managerTargetServer' = managerTargetServer]_vars

\* C14 witness: a second start was refused while the first child ran, and
\* the handle still refers to that child.
C14_Witness ==
  /\ Len(starts) = 2
  /\ starts[1].error = "none"
  /\ starts[2].before = 1
  /\ starts[2].outcome = "spawned"
  /\ starts[2].error = "Target server is already running"
  /\ Len(children) = 1 /\ children[1].alive
  /\ managerTargetServer = 1

\* the children that are running
Alive == {c \in 1..Len(children) : children[c].alive}

\* C15: whatever calls of startTargetServer and stopTargetServer are made
\* on one manager, in whatever order and overlap, and whichever cleanup
\* steps fail, at most one child spawned by the manager is running.
C15_AtMostOneChildAlive == Cardinality(Alive) <= 1

\* this step is a stop call
StopCalled == Len(stops') = Len(stops) + 1

\* the step closes, kills and waits for nothing and changes neither handle,
\* nor any child, nor the pumps; the call has returned without raising
StopDidNothing ==
  /\ stops'[Len(stops')].found = NULL
  /\ stops'[Len(stops')].steps = <<>>
  /\ stops'[Len(stops')].pc = "returned"
  /\ ~stops'[Len(stops')].raised
  /\ UNCHANGED <<managerTargetServer, targetServer, children, pump, listeners,
                 trafficVars>>

\* C16: a stop call that finds no handle does nothing, and so does a stop
\* call made after another stop call has returned: stopping twice leaves the
\* state that stopping once leaves.
C16_StopIdempotent ==
  [][(StopCalled /\ (\/ managerTargetServer = NULL
                     \/ \E i \in 1..Len(stops) : stops[i].pc = "returned"))
       => StopDidNothing]_vars

\* C16 witness: a first stop closed, killed and waited for the child and
\* returned; a second stop then found no handle and returned at once.
C16_Witness ==
  /\ Len(stops) = 2
  /\ stops[1].steps = <<"end", "kill", "wait">>
  /\ stops[1].pc = "returned"
  /\ stops[2].found = NULL /\ stops[2].steps = <<>>
  /\ stops[2].pc = "returned"
  /\ ~children[1].alive /\ children[1].killed
  /\ managerTargetServer = NULL /\ targetServer = NULL

\* stop call i returns in this step
Returns(i) ==
  /\ stops'[i].pc = "returned"
  /\ i > Len(stops) \/ stops[i].pc # "returned"

\* C17: whichever cleanup step throws (closing the child's input, the kill,
\* or the wait for the exit), stopTargetServer returns without raising, and
\* the manager holds no handle when it does.
C17_StopNeverRaises ==
  [][\A i \in 1..Len(stops') :
       Returns(i) => ~stops'[i].raised /\ managerTargetServer' = NULL]_vars

\* C17 witness: one stop whose kill threw and, after a restart, one stop
\* whose wait threw while the child ran on; both returned, no handle left.
C17_Witness ==
  /\ Len(stops) = 2
  /\ stops[1].fail = "kill" /\ stops[1].pc = "returned"
  /\ stops[2].fail = "exited" /\ stops[2].pc = "returned"
  /\ stops[2].found = 2 /\ children[2].alive
  /\ managerTargetServer = NULL

\* C18: a stop call that found a handle attempts the closing of the child's
\* input, the kill and the wait in this order, and when it has returned the
\* child has been sent the signal and has exited.
C18_StopEndsKillsWaits ==
  \A i \in 1..Len(stops) :
    stops[i].found # NULL =>
      /\ stops[i].steps = SubSeq(<<"end", "kill", "wait">>, 1, Len(stops[i].steps))
      /\ stops[i].steps # <<>>
      /\ stops[i].pc = "returned" =>
           /\ children[stops[i].found].killed
           /\ ~children[stops[i].found].alive

StopsAreSafe ==
  /\ \A i \in 1..Len(stops) : ~stops[i].raised
  /\ \A i \in 1..Len(requests) : ~requests[i].raised
  /\ hostErr = 0 /\ pump # "ended"
  /\ (stops # <<>> /\ \A i \in 1..Len(stops) : stops[i].pc = "returned") =>
       targetServer = NULL /\ managerTargetServer = NULL

Terminated ==
  /\ targetServer = NULL
  /\ managerTargetServer = NULL
  /\ \A c \in 1..Len(children) : ~children[c].alive

\* C21: once the host's input has ended on a running session (the 'end'
\* listener has made the first stop call), eventually the child has been terminated and
\* the handles are cleared.
C21_EndOfInputStopsChild ==
  (stops # <<>> /\ stops[1].via = "end") ~> Terminated

\* a stop call made through the session found the child and has returned
Stopped ==
  \E i \in 1..Len(stops) :
    stops[i].via # "manager" /\ stops[i].found # NULL /\ stops[i].pc = "returned"

\* C22: once a stop has completed on a started session, no step spawns a
\* child, and a start made afterwards fails and installs nothing.
C22_StoppedIsTerminal ==
  [][Stopped =>
       /\ Len(children') = Len(children)
       /\ listeners' = listeners
       /\ Len(starts') > Len(starts) => starts'[Len(starts')].error # "none"]_vars

\* the arguments the parser reads options and command words from
OptionArgs == IF argv # <<>> /\ argv[1] = LIST_TOOLS THEN Tail(argv) ELSE argv

\* argument i stands on its own: it is not the value of a flag before it
RECURSIVE OwnArg(_)
OwnArg(i) ==
  \/ i = 1
  \/ i > 1 /\ OwnArg(i - 1)
           /\ OptionArgs[i - 1] \notin {ENABLED_TOOLS, DISABLED_TOOLS}
  \/ i > 2 /\ OwnArg(i - 2)
           /\ OptionArgs[i - 2] \in {ENABLED_TOOLS, DISABLED_TOOLS}

\* the flag is given with a value after it
GivenList(flag) ==
  \E i \in 1..(Len(OptionArgs) - 1) : OwnArg(i) /\ OptionArgs[i] = flag

\* no argument is a word of the target command
NoCommand ==
  \A i \in 1..Len(OptionArgs) :
    OwnArg(i) => OptionArgs[i] \in {ENABLED_TOOLS, DISABLED_TOOLS}

\* C23: a command line that gives both an include list and an exclude list,
\* in either order, or that names no target command, is rejected with an
\* error and exit code 1, in proxy mode and in list-tools mode, and no
\* child is ever spawned for it.
C23_InvalidConfigSpawnsNothing ==
  ((GivenList(ENABLED_TOOLS) /\ GivenList(DISABLED_TOOLS)) \/ NoCommand) =>
    /\ children = <<>> /\ starts = <<>>
    /\ pc # "main" => (pc = "exited" /\ exitCode = "1" /\ stderrText # <<>>)

\* C23 witness: list-tools with an exclude list, then an include list, then
\* a command: rejected as mutually exclusive, nothing started.
C23_Witness ==
  /\ argv = <<LIST_TOOLS, DISABLED_TOOLS, ADD, ENABLED_TOOLS, ADD, BUN>>
  /\ pc = "exited" /\ exitCode = "1"
  /\ stderrText =
       <<[what |-> "Error: --enabled-tools and --disabled-tools are mutually exclusive",
          message |-> <<>>]>>
  /\ children = <<>>

\* the flag is given without a tool list: it is the last argument, or the
\* argument after it is a word of the target command
MissingList(flag) ==
  \E i \in 1..Len(OptionArgs) :
    /\ OwnArg(i) /\ OptionArgs[i] = flag
    /\ i = Len(OptionArgs) \/ OptionArgs[i + 1] \in {BUN, SERVER_TS}

RequiresValue(flag) ==
  IF flag = ENABLED_TOOLS THEN "Error: --enabled-tools requires a value"
  ELSE "Error: --disabled-tools requires a value"

\* C24: a flag given without a tool list, be it the last argument or
\* directly followed by the target command, makes the controller exit with
\* code 1 and '<flag> requires a value', and nothing is spawned.
C24_MissingListRejected ==
  \A flag \in {ENABLED_TOOLS, DISABLED_TOOLS} :
    MissingList(flag) =>
      /\ children = <<>> /\ starts = <<>>
      /\ pc # "main" =>
           /\ exitCode = "1"
           /\ \E k \in 1..Len(stderrText) :
                stderrText[k].what = RequiresValue(flag)

\* the child has been stopped through the manager: a stopTargetServer call
\* found it and has returned
StoppedThroughManager ==
  \E i \in 1..Len(stops) : stops[i].found # NULL /\ stops[i].pc = "returned"

\* C25: on every exit path of listTools after the child was started, be it
\* the success or an error, the child has been stopped through the manager
\* by the time listTools returns or the controller exits.
C25_ListerAlwaysStopsChild ==
  (pc \in {"returned", "exited"} /\ children # <<>>) => StoppedThroughManager

\* the lines of toolsBuffer that parse to an object whose id is 2
IdTwoLines ==
  LET isIdTwo(line) ==
        LET p == JSONparse(trim(line))
        IN ~p.threw /\ IsObj(p.val) /\ Get(p.val, "id") = Num(2)
  IN SelectSeq(split(buffer), isIdTwo)

\* C26: when the line with id 2 carries an error, listTools fails with a
\* tools-list failure that carries the server's message, prints no tool
\* line, exits with a non-zero code, and reads no further.
C26_ToolsListErrorFails ==
  (IdTwoLines # <<>> /\ hasError(JSONparse(trim(IdTwoLines[1])).val)) =>
    /\ pc = "exited" /\ exitCode = "1"
    /\ \E k \in 1..Len(stderrText) :
         /\ stderrText[k].what = "Tools list failed"
         /\ stderrText[k].message =
              errorMessage(JSONparse(trim(IdTwoLines[1])).val)
    /\ hostOut = <<>>

\* the first line the child wrote, as text, without its newline
FirstResponseLine == trim(split(concat(<<>>, decode(emitted[1])))[1])

\* what C27 requires of a run whose first response line carries an error
InitializeFailed ==
  /\ pc = "exited" /\ exitCode = "1"
  /\ stderrText =
       <<[what |-> "Initialize failed",
          message |-> errorMessage(JSONparse(FirstResponseLine).val)]>>
  /\ childIn = initializeRequest
  /\ hostOut = <<>>

\* C27: when the first response line carries an error, listTools fails
\* with an initialize failure that carries the server's message, never
\* writes the tools/list request, prints no tool line, and the controller
\* exits with a non-zero code.
C27_InitializeErrorFails ==
  (/\ emitted # <<>>
   /\ hasError(JSONparse(FirstResponseLine).val)
   /\ pc \notin {"list-tools", "initRead"}) => InitializeFailed

\* the first non-blank line of the chunk the first read brought
FirstLineRead ==
  LET nonBlank(line) == trim(line) # <<>>
  IN trim(SelectSeq(split(concat(<<>>, decode(filterLog[1].line))),
                    nonBlank)[1])

\* C28: the exchange of listTools is strictly ordered.  Nothing is written
\* before the child is started; what has been written to the child is
\* nothing, or the initialize request, or the initialize request followed
\* by the tools/list request, so each is written once and in this order;
\* and the tools/list request is there only if the first read brought a
\* response line without an error.
C28_ListerExchangeOrdered ==
  /\ children = <<>> => childIn = <<>>
  /\ childIn \in {<<>>, initializeRequest,
                  initializeRequest \o toolsListRequest}
  /\ childIn = initializeRequest \o toolsListRequest =>
       /\ filterLog # <<>>
       /\ ~JSONparse(FirstLineRead).threw
       /\ ~hasError(JSONparse(FirstLineRead).val)

\* C28 witness: both requests have been written, after a first read that
\* brought a response without error, and the lister has gone on to print
\* the tools of the second response.
C28_Witness ==
  /\ childIn = initializeRequest \o toolsListRequest
  /\ filterLog # <<>> /\ ~filterLog[1].raised
  /\ Len(emitted) = 2
  /\ pc = "returned"
  /\ hostOut # <<>>

\* the names on the tool lines written to the host's output
PrintedNames ==
  LET isTool(tok) == tok.c = "tool"
      toolLines == SelectSeq(hostOut, isTool)
  IN {toolLines[i].name : i \in 1..Len(toolLines)}

\* the result of the response listTools printed: the first line with id 2
\* that carries no error
ListedResult ==
  LET good(line) == ~hasError(JSONparse(trim(line)).val)
  IN Get(JSONparse(trim(SelectSeq(IdTwoLines, good)[1])).val, "result")

\* the names the Message Filter retains of a tool list under the same
\* configuration
RetainedNames ==
  LET kept == Get(filterToolsListResponse(config, ListedResult), "tools").el
  IN {ToolName(kept[i]) : i \in 1..Len(kept)}

\* C29: for every tool list and every include or exclude pattern set, the
\* tools the One-Shot Lister prints are the tools the Message Filter
\* retains of the same list under the same configuration.
C29_ListerFiltersLikeProxy ==
  (pc \in {"finally", "returned"} /\ Has(ListedResult, "tools")) =>
    PrintedNames = RetainedNames

\* the line '<name>: <description>' of a tool, with the placeholder for a
\* tool that has no description
ToolLine(tool) ==
  <<[c |-> "tool", name |-> Get(tool, "name").s,
     description |-> IF Has(tool, "description")
                     THEN Get(tool, "description").s
                     ELSE <<"No description available">>],
    NL>>

RECURSIVE ToolLines(_)
ToolLines(tools) ==
  IF tools = <<>> THEN <<>> ELSE ToolLine(Head(tools)) \o ToolLines(Tail(tools))

\* C30: on success the standard output holds one line per tool that
\* survived the lister's filtering, in the order of the server's array,
\* each '<name>: <description>' with the placeholder for an absent
\* description, and nothing else; on every other path it stays empty.
C30_OneLinePerSurvivingTool ==
  IF pc \in {"finally", "returned"}
  THEN hostOut =
         ToolLines(listerFilter(config,
           IF Has(ListedResult, "tools") THEN Get(ListedResult, "tools").el
           ELSE <<>>))
  ELSE hostOut = <<>>

\* C30 witness: a server listed add and get-args, nothing was filtered
\* out, and the lister has printed the two lines, the second with the
\* placeholder, and exited with code 0.
C30_Witness ==
  /\ pc = "returned" /\ exitCode = "0"
  /\ ~config.hasEnabled /\ ~config.hasDisabled
  /\ Len(hostOut) = 4
  /\ hostOut[1].name = ADD /\ hostOut[1].description = <<"d">>
  /\ hostOut[3].name = GET_ARGS
  /\ hostOut[3].description = <<"No description available">>

\* the child could not be launched
LaunchFailed == starts # <<>> /\ starts[1].error # "none"

\* the child has exited, and with it closed its output, without ever having
\* written a line with id 2, while listTools waits for a read
ClosedBeforeIdTwo ==
  /\ children # <<>> /\ ~children[ListerChild].alive
  /\ \A i \in 1..Len(emitted) : emitted[i] \notin ListerReplies(2)
  /\ pc \in {"initRead", "toolsRead"}

\* the lister has reported an error, printed nothing and exited with code 1
FailedExit ==
  /\ pc = "exited" /\ exitCode = "1"
  /\ stderrText # <<>>
  /\ hostOut = <<>>

\* C31: when the child cannot be launched, or exits before it has written
\* a line with id 2, listTools does not wait for ever: it reports an error
\* on the error stream, prints nothing and the controller exits with 1.
C31_ListerTerminatesOnDeadChild ==
  (LaunchFailed \/ ClosedBeforeIdTwo) ~> FailedExit

\* C31 witness: the child answered the initialize request and exited; the
\* loop of listTools met the end of the stream and the lister failed.
C31_Witness ==
  /\ FailedExit
  /\ children # <<>> /\ ~children[ListerChild].alive
  /\ emitted # <<>>
  /\ \A i \in 1..Len(emitted) : emitted[i] \notin ListerReplies(2)
  /\ stderrText[1].what = "No tools/list response received"

\* the pattern and the name of a run of the matcher, and the matcher's
\* answer as the host sees it: under --enabled-tools the tool is listed
\* when the name matches, under --disabled-tools when it does not
RunPattern ==
  IF config.hasEnabled THEN config.enabledTools[1] ELSE config.disabledTools[1]
RunName == Get(ToolsOf(emitted[1].raw)[1], "name").s
Asked == filterLog # <<>> /\ ~filterLog[1].raised
Listed == ToolsOf(filterLog[1].out) # <<>>
Matched == IF config.hasEnabled THEN Listed ELSE ~Listed
SameString(a, b) ==
  Len(a) = Len(b) /\ \A i \in 1..Len(a) : a[i] = b[i]

\* C32: for a pattern without `*` the matcher answers true exactly when
\* the name and the pattern are the same string, letter case included; so
\* the empty pattern matches the empty name and no other.
C32_ExactWithoutWildcard ==
  (Asked /\ ~\E i \in 1..Len(RunPattern) : RunPattern[i] = "*") =>
    /\ Matched <=> SameString(RunName, RunPattern)
    /\ RunPattern = <<>> => (Matched <=> RunName = <<>>)

\* C32 witness: the name and the pattern differ in the case of a letter
\* only, and the matcher has answered false.
C32_Witness ==
  /\ Asked
  /\ RunPattern = <<"a", "A">> /\ RunName = <<"a", "a">>
  /\ ~Matched
  /\ OutLines # <<>>

\* name can be written as the literal characters of pattern in order,
\* with a string of its own, possibly the empty one, in place of each `*`:
\* the string that stands for a `*` is the first k characters of what is
\* left of the name
RECURSIVE Instance(_, _)
Instance(name, pattern) ==
  IF pattern = <<>> THEN name = <<>>
  ELSE IF Head(pattern) = "*"
    THEN \E k \in 0..Len(name) :
           Instance(SubSeq(name, k + 1, Len(name)), Tail(pattern))
  ELSE /\ name # <<>>
       /\ name[1] = pattern[1]
       /\ Instance(Tail(name), Tail(pattern))
StartsWith(name, s) ==
  Len(s) <= Len(name) /\ SubSeq(name, 1, Len(s)) = s
EndsWith(name, s) ==
  /\ Len(s) <= Len(name)
  /\ SubSeq(name, Len(name) - Len(s) + 1, Len(name)) = s
Literal(s) == \A i \in 1..Len(s) : s[i] # "*"

\* C33: for a pattern with `*` the matcher answers true exactly when the
\* whole name is the pattern's literal segments in order with some string
\* for each `*`.  So `*` matches every name, a literal followed by `*`
\* exactly the names that start with the literal, `*` followed by a
\* literal exactly those that end with it, and a match of a part of the
\* name does not count.
C33_WildcardMatchesWholeName ==
  (Asked /\ \E i \in 1..Len(RunPattern) : RunPattern[i] = "*") =>
    /\ Matched <=> Instance(RunName, RunPattern)
    /\ RunPattern = <<"*">> => Matched
    /\ \A s \in MatcherPatterns :
         /\ (Literal(s) /\ RunPattern = s \o <<"*">>) =>
              (Matched <=> StartsWith(RunName, s))
         /\ (Literal(s) /\ RunPattern = <<"*">> \o s) =>
              (Matched <=> EndsWith(RunName, s))

\* C33 witness: the pattern a*A and a name that begins with a match of it
\* but goes on; the matcher has answered false.
C33_Witness ==
  /\ Asked
  /\ RunPattern = <<"a", "*", "A">> /\ RunName = <<"a", "A", "a">>
  /\ ~Matched
  /\ OutLines # <<>>

\* the i-th line the child wrote to the lister, as text, without its
\* line ending
LineText(i) == trim(split(concat(<<>>, decode(emitted[i])))[1])

\* the first line the child wrote is an initialize response without error
InitializeAnswered ==
  /\ emitted # <<>>
  /\ emitted[1] \in ListerReplies(1)
  /\ ~hasError(JSONparse(LineText(1)).val)

\* the child went on to write a tools/list response with a result, and
\* nothing else
HandshakeBytes ==
  /\ InitializeAnswered
  /\ Len(emitted) = 2
  /\ emitted[2] \in ListerReplies(2)
  /\ tryLine(config, LineText(2)).returns

\* C34: the outcome of listTools is that of the bytes the child wrote, not
\* of the reads that brought them.  However the initialize response is cut
\* into reads, the lister goes on to its tools/list request, as it does
\* when one read brings the line; and however the tools/list response is
\* cut, the run that has come to its end has printed the tool lines of the
\* response and has not failed.
C34_ChunkingIndependent ==
  /\ (InitializeAnswered /\ pc \notin {"list-tools", "initRead"}) =>
       /\ childIn = initializeRequest \o toolsListRequest
       /\ \A k \in 1..Len(stderrText) : stderrText[k].what # "SyntaxError"
  /\ (HandshakeBytes /\ pc \in {"finally", "returned", "exited"}) =>
       /\ pc # "exited" /\ exitCode # "1"
       /\ hostOut = encode(tryLine(config, LineText(2)).out)

\* the units C35 asks for, one for each complete line: the Message
\* Filter's result and a newline for a line that is not blank, a bare
\* newline for a line that is empty or holds whitespace only
RECURSIVE Units(_, _)
Units(cfg, lines) ==
  IF lines = <<>> THEN <<>>
  ELSE (IF \E i \in 1..Len(Head(lines)) : ~IsWs(Head(lines)[i])
        THEN processMessage(cfg, trim(Head(lines))).out \o <<NL>>
        ELSE <<NL>>) \o Units(cfg, Tail(lines))

\* the complete lines the Frame Reader emits when a read brings chunk
FramedLines(chunk) ==
  LET lines == split(buffer \o decode(chunk))
  IN SubSeq(lines, 1, Len(lines) - 1)

\* C35: in every read of the pump, each complete line the Frame Reader
\* emits adds exactly one newline-terminated unit to the host's output,
\* in the order of the lines: the Message Filter's result and a newline
\* for a non-blank line, a bare newline for a blank one; and nothing else
\* is written.
C35_OneUnitPerLine ==
  [][Len(childOut') < Len(childOut) =>
       LET chunk == SubSeq(childOut, 1, Len(childOut) - Len(childOut'))
           written == SubSeq(hostOut', Len(hostOut) + 1, Len(hostOut'))
       IN /\ hostOut' = hostOut \o encode(Units(config, FramedLines(chunk)))
          /\ Cardinality({i \in 1..Len(written) : written[i] = NL}) =
               Len(FramedLines(chunk))]_vars

\* C35 witness: the child wrote a line of whitespace only, the pump has
\* read it and the host's output is one bare newline.
C35_Witness ==
  /\ emitted # <<>> /\ emitted[1].raw = <<SP, CR>>
  /\ childOut = <<>> /\ buffer = <<>>
  /\ hostOut = <<NL>>

\* a is the beginning of b
IsPrefix(a, b) == Len(a) <= Len(b) /\ a = SubSeq(b, 1, Len(a))

\* the lines the child has written that are not blank, trimmed, in the
\* order in which it wrote them
RECURSIVE NonBlank(_)
NonBlank(lines) ==
  IF lines = <<>> THEN <<>>
  ELSE (IF trim(Head(lines).raw) = <<>> THEN <<>>
        ELSE <<trim(Head(lines).raw)>>) \o NonBlank(Tail(lines))

\* for each line the child has written, in order, the line the host is to
\* get for it
RECURSIVE Forwarded(_)
Forwarded(lines) ==
  IF lines = <<>> THEN <<>>
  ELSE <<IF trim(Head(lines).raw) = <<>> THEN <<>>
         ELSE processMessage(config, trim(Head(lines).raw)).out>>
       \o Forwarded(Tail(lines))

\* C36: whatever the cutting of the child's bytes into reads, the calls of
\* the Message Filter made so far are the first non-blank lines the child
\* wrote, one call a line and in the child's order, and the lines on the
\* host's output are those of the child's first lines, one a line and in
\* the child's order: no line is filtered twice, written twice or
\* overtaken.
C36_NoDuplicationNoReordering ==
  /\ IsPrefix([k \in 1..Len(filterLog) |-> filterLog[k].line],
              NonBlank(emitted))
  /\ IsPrefix(OutLines, Forwarded(emitted))

\* C36 witness: the child wrote two different lines in one burst, and
\* both have been filtered and have reached the host's output, in the
\* child's order.
C36_Witness ==
  /\ Len(emitted) = 2
  /\ emitted[1].raw = <<Junk(1)>> /\ emitted[2].raw = <<Junk(2), CR>>
  /\ Len(filterLog) = 2
  /\ childOut = <<>> /\ buffer = <<>>
  /\ OutLines = <<<<Junk(1)>>, <<Junk(2)>>>>

\* the children that exited by themselves: no stop call had closed their
\* input or sent them the signal
ExitedByItself ==
  {c \in 1..Len(children) :
     ~children[c].alive /\ ~children[c].killed /\ ~children[c].stdinEnded}

\* C37: a handle is live only until stopTargetServer or the child's own
\* exit: the manager reports no handle of a child that has exited by
\* itself, so that with such a child as its last isRunning() is false and
\* getTargetServer() is null.
C37_ExitedChildHasNoHandle ==
  \A c \in ExitedByItself :
    /\ getTargetServer(managerTargetServer) # c
    /\ c = Len(children) =>
         ~isRunning(managerTargetServer)
         /\ getTargetServer(managerTargetServer) = NULL

\* C37 as amended: a handle is live until stopTargetServer clears it, and
\* the child's own exit does not.  A step in which a child exits leaves
\* what getTargetServer() and isRunning() report as it was, and the manager
\* goes from a handle to none only in a step of a stopTargetServer call.
C37_HandleLiveUntilStop ==
  [][/\ (\E c \in 1..Len(children) :
           children[c].alive /\ ~children'[c].alive) =>
          /\ getTargetServer(managerTargetServer') =
               getTargetServer(managerTargetServer)
          /\ isRunning(managerTargetServer') = isRunning(managerTargetServer)
     /\ (isRunning(managerTargetServer) /\ ~isRunning(managerTargetServer')) =>
          stops' # stops]_vars

\* C37 witness: the child has exited by itself, no stop call has been
\* made, and the manager still reports its handle.
C37_Witness ==
  /\ ExitedByItself # {}
  /\ stops = <<>>
  /\ isRunning(managerTargetServer)
  /\ getTargetServer(managerTargetServer) \in ExitedByItself

\* C38: the client-to-child pump issues no write to a sink that a stop
\* call has ended: in no step does a chunk from the host's input find the
\* session with a handle whose stdin has been ended, which is when the
\* 'data' listener calls stdin.write.
C38_NoWriteToEndedSink ==
  [][requests' # requests =>
       ~(targetServer # NULL /\ children[targetServer].stdinEnded)]_vars

\* the child-to-client pump has left its loop: nothing is written to the
\* host's output from here on
PumpOver == pump \in {"exited", "ended", "done"}

\* C39: no response is lost at shutdown.  Every complete line the child
\* has written is written to the host's output in the end; so once the
\* pump has left its loop, after which it writes nothing, the host's
\* output holds a line for every line the child has written, also when
\* the end of the host's input started the stop before the pump had read
\* the line.
C39_NoResponseLostAtShutdown ==
  PumpOver => Len(OutLines) >= Len(emitted)

====
